---------------------------- MODULE Spec2Model ----------------------------
(***************************************************************************)
(* Pigment Factory Grid: components (factories, adders, gradientors,       *)
(* storage containers) linked port to port, and the colours that flow      *)
(* through the links (computeColors).                                      *)
(*                                                                         *)
(* Conventions.                                                            *)
(*  - A colour is a triple <<r, g, b>>; JavaScript's null/undefined colour *)
(*    is Null, the empty tuple.                                            *)
(*  - The ids `c-7', `p-8', `link-9' all come from one counter (nextId),   *)
(*    so an id is modelled by its number.                                  *)
(*  - A port reference {componentId, portId} is a record; JavaScript's     *)
(*    null reference is NoRef.                                             *)
(*  - DOM elements, positions and rendering are left out: they never feed  *)
(*    back into components, connections, selectedPort or the colours.      *)
(***************************************************************************)
EXTENDS Integers, Sequences, FiniteSets, TLC

Null == <<>>

NoRef == [componentId |-> 0, portId |-> 0]

Min2(a, b) == IF a < b THEN a ELSE b

Max2(a, b) == IF a > b THEN a ELSE b

Min3(a, b, c) == Min2(a, Min2(b, c))

Max3(a, b, c) == Max2(a, Max2(b, c))

\* F(e), with e computed before F is entered (as JavaScript computes a
\* const before the statements that use it).
First(e, F(_)) == CHOOSE r \in {F(v) : v \in {e}} : TRUE

(***************************************************************************)
(* Exact arithmetic.  The JavaScript code computes in double precision;    *)
(* the model computes the same expressions over the rationals and rounds   *)
(* once, where the code calls Math.round.  The numerators do not fit a     *)
(* machine integer, so they are kept as seven limbs in base BigBase, the   *)
(* lowest limb first (values below 10^28), and are multiplied and divided  *)
(* by factors below 2^31 / BigBase only.                                   *)
(***************************************************************************)
BigBase == 10000

\* The limbs of 0 <= n < BigBase
BigOf(n) == <<n, 0, 0, 0, 0, 0, 0>>

\* x * f
BigMul(x, f) ==
    LET c1 == x[1] * f
        c2 == x[2] * f + c1 \div BigBase
        c3 == x[3] * f + c2 \div BigBase
        c4 == x[4] * f + c3 \div BigBase
        c5 == x[5] * f + c4 \div BigBase
        c6 == x[6] * f + c5 \div BigBase
        c7 == x[7] * f + c6 \div BigBase
    IN  <<c1 % BigBase, c2 % BigBase, c3 % BigBase, c4 % BigBase,
          c5 % BigBase, c6 % BigBase, c7 % BigBase>>

\* x + y
BigAdd(x, y) ==
    LET c1 == x[1] + y[1]
        c2 == x[2] + y[2] + c1 \div BigBase
        c3 == x[3] + y[3] + c2 \div BigBase
        c4 == x[4] + y[4] + c3 \div BigBase
        c5 == x[5] + y[5] + c4 \div BigBase
        c6 == x[6] + y[6] + c5 \div BigBase
        c7 == x[7] + y[7] + c6 \div BigBase
    IN  <<c1 % BigBase, c2 % BigBase, c3 % BigBase, c4 % BigBase,
          c5 % BigBase, c6 % BigBase, c7 % BigBase>>

\* floor(x / d): long division from the top limb down
BigDiv(x, d) ==
    LET r7 == x[7]
        r6 == (r7 % d) * BigBase + x[6]
        r5 == (r6 % d) * BigBase + x[5]
        r4 == (r5 % d) * BigBase + x[4]
        r3 == (r4 % d) * BigBase + x[3]
        r2 == (r3 % d) * BigBase + x[2]
        r1 == (r2 % d) * BigBase + x[1]
        Lowest(top) == [i \in 1..7 |-> top[8 - i]]
    IN  Lowest(<<r7 \div d, r6 \div d, r5 \div d, r4 \div d, r3 \div d, r2 \div d,
                 r1 \div d>>)

(***************************************************************************)
(* cubicInt(t, a, b) = a + weight*(b - a) = a*(1 - weight) + b*weight, and *)
(* for t = n/255                                                           *)
(*   weight     = t*t*(3 - 2*t)     = n*n*(765 - 2*n) / 255^3,             *)
(*   1 - weight = (1 - t)^2*(1 + 2*t) = (255 - n)^2*(255 + 2*n) / 255^3.   *)
(* With a = A/255^(3k) and b = B/255^(3k), CubicInt returns the numerator  *)
(* of the result over 255^(3k+3).                                          *)
(***************************************************************************)
CubicInt(n, A, B) ==
    BigAdd(BigMul(BigMul(A, (255 - n) * (255 - n)), 255 + 2 * n),
           BigMul(BigMul(B, n * n), 765 - 2 * n))

\* The RYB cube corners of rybToRgb, as RGB values.
COLORS ==
    << <<255, 255, 255>>, <<0, 0, 255>>, <<255, 255, 0>>, <<0, 255, 0>>,
       <<255, 0, 0>>, <<128, 0, 128>>, <<255, 128, 0>>, <<0, 0, 0>> >>

\* The numerator, over 255^9, of the interpolated component.
InterpolateComponent(iR, iY, iB, colors, component) ==
    LET x == << CubicInt(iB, BigOf(colors[1][component]), BigOf(colors[2][component])),
                CubicInt(iB, BigOf(colors[3][component]), BigOf(colors[4][component])),
                CubicInt(iB, BigOf(colors[5][component]), BigOf(colors[6][component])),
                CubicInt(iB, BigOf(colors[7][component]), BigOf(colors[8][component])) >>
        Y(x0, x1, x2, x3) == <<CubicInt(iY, x0, x1), CubicInt(iY, x2, x3)>>
    IN  First(x, LAMBDA xs :
            First(Y(xs[1], xs[2], xs[3], xs[4]), LAMBDA ys :
                CubicInt(iR, ys[1], ys[2])))

\* 255^9, the common denominator of InterpolateComponent.
BigDen3 ==
    BigMul(BigMul(BigMul(BigMul(BigMul(BigOf(1), 65025), 65025), 65025), 65025), 255)

\* Math.round(Math.min(255, Math.max(0, out))) for out = N / 255^9:
\* floor(out + 1/2) = floor(floor((2N + 255^9) / 255^9) / 2).
RoundClamp(N) ==
    LET Halved(q) == Min2(255, Max2(0, q[1] \div 2))
    IN  First(BigAdd(BigAdd(N, N), BigDen3), LAMBDA twice :
            First(BigDiv(BigDiv(BigDiv(twice, 65025), 65025), 65025), LAMBDA q :
                Halved(BigDiv(BigDiv(q, 65025), 255))))

RybToRgb(ryb) ==
    LET Out(component) ==
            First(InterpolateComponent(ryb[1], ryb[2], ryb[3], COLORS, component),
                  LAMBDA out : RoundClamp(out))
    IN  <<Out(1), Out(2), Out(3)>>

Pow2(n) == 2 ^ n

\* 2^E <= num / den
Pow2AtMost(E, num, den) ==
    IF E >= 0 THEN den * Pow2(E) <= num ELSE den <= num * Pow2(-E)

\* The binary exponent of num / den: the largest E with 2^E <= num / den.
FloorLog2(num, den) ==
    CHOOSE E \in -10..10 : Pow2AtMost(E, num, den) /\ ~Pow2AtMost(E + 1, num, den)

\* (v * 2^n) mod b for 0 <= v < 256 and 0 < b < 256, sixteen doublings at a time
RECURSIVE DoubleMod(_, _, _)
DoubleMod(v, n, b) ==
    IF n < 16 THEN (v * Pow2(n)) % b
    ELSE DoubleMod((v * Pow2(16)) % b, n - 16, b)

(***************************************************************************)
(* Math.round(x * (num / den)) in IEEE double arithmetic, for integers     *)
(* 0 <= x, num <= 255 and 0 < den <= 255.  The double result differs from  *)
(* the exact x*num/den by far less than the distance of a non-tie to the   *)
(* nearest k + 1/2, so only an exact tie x*num/den = k + 1/2 depends on    *)
(* the rounding of the two operations:                                     *)
(*   q = fl(num/den) has a 53-bit mantissa at exponent E; the division     *)
(*     rounds down by rho/(den*2^(52-E)) when rho = num*2^(52-E) mod den   *)
(*     is below den/2 (and is exact or rounds up otherwise);               *)
(*   fl(x*q) is then k + 1/2 itself unless x times that error exceeds      *)
(*     half the spacing 2^(e-52) of the doubles just below k + 1/2.        *)
(* Math.round takes k + 1/2 to k + 1 and anything below it to k.           *)
(***************************************************************************)
RoundScaled(x, num, den) ==
    LET twice == 2 * x * num
        \* the tie at k + 1/2: E and rho of the division, e0 the binary
        \* exponent of k + 1/2, e that of the doubles just below it
        Tie(k, E, rho, e0) ==
            LET e == IF 2 * k + 1 = Pow2(e0 + 1) THEN e0 - 1 ELSE e0
                d == 1 + E - e
                \* x * rho * 2^d <= den, the powers cut where the sides part
                \* for good (x * rho < 2^16, den < 2^8)
                within == IF d >= 0 THEN x * rho * Pow2(Min2(d, 8)) <= den
                          ELSE x * rho <= den * Pow2(Min2(-d, 16))
            IN  IF rho = 0 \/ 2 * rho > den \/ within THEN k + 1 ELSE k
        TieAt(k, E) == Tie(k, E, DoubleMod(num, 52 - E, den), FloorLog2(2 * k + 1, 2))
    IN  IF twice % (2 * den) # den
        THEN (twice + den) \div (2 * den)
        ELSE TieAt((twice - den) \div (2 * den), FloorLog2(num, den))

RgbToRyb(rgb) ==
    LET \* from `const maxRYB' on: scale by maxG / maxRYB, add the white back
        Scaled(r, y, b, maxG, white) ==
            LET maxRYB == Max3(r, y, b)
            IN  << (IF maxRYB > 0 THEN RoundScaled(r, maxG, maxRYB) ELSE r) + white,
                   (IF maxRYB > 0 THEN RoundScaled(y, maxG, maxRYB) ELSE y) + white,
                   (IF maxRYB > 0 THEN RoundScaled(b, maxG, maxRYB) ELSE b) + white >>
        \* from `b > 0 && g > 0' on, y having been taken out of r and g
        Halved(r, y, g, b, maxG, white) ==
            LET halve == b > 0 /\ g > 0
                b1 == IF halve THEN b \div 2 ELSE b
                g1 == IF halve THEN g \div 2 ELSE g
            IN  Scaled(r, y + g1, b1 + g1, maxG, white)
        \* from `const maxG' on, the white having been taken out
        Yellowed(r, g, b, white) ==
            Halved(r - Min2(r, g), Min2(r, g), g - Min2(r, g), b, Max3(r, g, b), white)
        Whitened(white) == Yellowed(rgb[1] - white, rgb[2] - white, rgb[3] - white, white)
    IN  Whitened(Min3(rgb[1], rgb[2], rgb[3]))

\* Math.round((a + b) / 2)
RoundHalf(a, b) == (a + b + 1) \div 2

\* A mixColors that averages the RGB channels.
MixColorsRgbAverage(color1, color2) ==
    <<RoundHalf(color1[1], color2[1]), RoundHalf(color1[2], color2[2]),
      RoundHalf(color1[3], color2[3])>>

\* A mix that takes the red of the first colour alone.
MixColorsFirstRed(color1, color2) ==
    LET Mixed(ryb1, ryb2) == << ryb1[1],
                                RoundHalf(ryb1[2], ryb2[2]),
                                RoundHalf(ryb1[3], ryb2[3]) >>
    IN  First(RgbToRyb(color1), LAMBDA ryb1 :
            First(RgbToRyb(color2), LAMBDA ryb2 :
                First(Mixed(ryb1, ryb2), LAMBDA mixedRyb : RybToRgb(mixedRyb))))

MixColors(color1, color2) ==
    LET Mixed(ryb1, ryb2) == << RoundHalf(ryb1[1], ryb2[1]),
                                RoundHalf(ryb1[2], ryb2[2]),
                                RoundHalf(ryb1[3], ryb2[3]) >>
    IN  First(RgbToRyb(color1), LAMBDA ryb1 :
            First(RgbToRyb(color2), LAMBDA ryb2 :
                First(Mixed(ryb1, ryb2), LAMBDA mixedRyb : RybToRgb(mixedRyb))))

\* Math.round(value * factor) left as it is.
AdjustChannelUnclamped(value, mode) ==
    LET tenths == IF mode = "darken" THEN 8 ELSE 12
    IN  (tenths * value + 5) \div 10

\* Math.max(0, Math.min(255, Math.round(value * factor))), factor 0.8 or 1.2
AdjustChannel(value, mode) ==
    LET tenths == IF mode = "darken" THEN 8 ELSE 12
    IN  Max2(0, Min2(255, (tenths * value + 5) \div 10))

AdjustColor(color, mode) ==
    IF color = Null THEN Null
    ELSE << AdjustChannel(color[1], mode),
            AdjustChannel(color[2], mode),
            AdjustChannel(color[3], mode) >>

ColorsEqual(a, b) ==
    IF a = Null /\ b = Null THEN TRUE
    ELSE IF a = Null \/ b = Null THEN FALSE
    ELSE a[1] = b[1] /\ a[2] = b[2] /\ a[3] = b[3]

(***************************************************************************)
(* The grid's state.                                                       *)
(*   components   the components array, in creation order; a component is  *)
(*                [id, type, color, mode, ports, storageSlots], a port is  *)
(*                [id, role]; storageSlots maps a storage's port ids to    *)
(*                the colour held (Null: none, as `slots[id] || null'),    *)
(*                warning: its element shows the warning text              *)
(*   connections  the connections array; a connection is [id, from, to]    *)
(*   selectedPort the pending first port of a link, or NoRef               *)
(*   idCounter    the counter behind nextId                                *)
(*   portOutputs  the port-output map of the last computeColors: its       *)
(*                entries [key, color], in the order they were set         *)
(*   changed, guard  the loop variables of the last computeColors as it    *)
(*                left its loop                                            *)
(*   reported     what the last computeColors told its caller: the value   *)
(*                it returned and the lines it logged                      *)
(*   lastOp       the path the last handler took, and                      *)
(*   added        how many components the user has added so far (records   *)
(*                of the run, not program state)                           *)
(* The state of the mix-and-feed page (the second script of                *)
(* src/unnamed/part_000).                                                  *)
(*   gameState    its gameState object: slot1Color, slot2Color,            *)
(*                resultColor (Null: null), crabColor, selectedSlot,       *)
(*                discoveredColors and inventoryFactories (sets of colour  *)
(*                keys, a key "r,g,b" kept as the tuple of its numbers)    *)
(*   mixBtnDisabled, feedBtnDisabled  the disabled flags of the buttons    *)
(*   feedTimers   the colours captured by the 600 ms timeouts of feedCrab  *)
(*                that have not fired yet, oldest first                    *)
(***************************************************************************)
VARIABLES components, connections, selectedPort, idCounter,
          portOutputs, changed, guard, reported, lastOp, added,
          gameState, mixBtnDisabled, feedBtnDisabled, feedTimers

gridVars == <<components, connections, selectedPort, idCounter,
              portOutputs, changed, guard, reported, added>>

crabVars == <<gameState, mixBtnDisabled, feedBtnDisabled, feedTimers>>

vars == <<components, connections, selectedPort, idCounter,
          portOutputs, changed, guard, reported, lastOp, added,
          gameState, mixBtnDisabled, feedBtnDisabled, feedTimers>>

\* The round budget of computeColors (`guard < 8').
MaxRounds == 8

\* No mode: `options.mode || null'.
NoMode == ""

PortKey(ref) == <<ref.componentId, ref.portId>>

Ref(cid, pid) == [componentId |-> cid, portId |-> pid]

\* A buildPorts whose factory loop stops one port short.
PortRolesShortFactory(type) ==
    CASE type = "factory"    -> <<"output", "output", "output">>
      [] type = "adder"      -> <<"input", "input", "output">>
      [] type = "gradientor" -> <<"input", "output">>
      [] type = "storage"    -> <<"flex", "flex", "flex", "flex", "flex", "flex">>
      [] OTHER               -> <<>>

\* buildPorts: the roles of a component's ports, in the order addPort adds them.
PortRoles(type) ==
    CASE type = "factory"    -> <<"output", "output", "output", "output">>
      [] type = "adder"      -> <<"input", "input", "output">>
      [] type = "gradientor" -> <<"input", "output">>
      [] type = "storage"    -> <<"flex", "flex", "flex", "flex", "flex", "flex">>
      [] OTHER               -> <<>>

\* buildPorts/addPort: each port takes the next id after the component's.
BuildPorts(type, componentId) ==
    [i \in 1..Len(PortRoles(type)) |->
        [id |-> componentId + i, role |-> PortRoles(type)[i]]]

PortsWithRole(component, role) ==
    SelectSeq(component.ports, LAMBDA p : p.role = role)

\* A findIndex whose -1 is taken for the last index, as splice(-1, 1) does.
ComponentIndexOrLast(comps, id) ==
    LET hits == {i \in 1..Len(comps) : comps[i].id = id}
    IN  IF hits = {} THEN Len(comps) ELSE CHOOSE i \in hits : TRUE

\* components.findIndex(c => c.id === id), 0 for -1.
ComponentIndex(comps, id) ==
    LET hits == {i \in 1..Len(comps) : comps[i].id = id}
    IN  IF hits = {} THEN 0 ELSE CHOOSE i \in hits : \A j \in hits : i <= j

\* getPort(ref): the port, or NoPort when the component or the port is gone.
NoPort == [id |-> 0, role |-> "none"]

GetPort(comps, ref) ==
    LET ci == ComponentIndex(comps, ref.componentId)
    IN  IF ci = 0 THEN NoPort
        ELSE LET hits == {k \in 1..Len(comps[ci].ports) :
                              comps[ci].ports[k].id = ref.portId}
             IN  IF hits = {} THEN NoPort
                 ELSE comps[ci].ports[CHOOSE k \in hits : \A j \in hits : k <= j]

\* connections.find(conn => conn.to is the port): its index, 0 for none.
InboundIndex(conns, cid, pid) ==
    LET hits == {i \in 1..Len(conns) :
                    conns[i].to.componentId = cid /\ conns[i].to.portId = pid}
    IN  IF hits = {} THEN 0 ELSE CHOOSE i \in hits : \A j \in hits : i <= j

\* The index of a key's entry in the port-output map, 0 for none.
EntryIndex(map, key) ==
    LET hits == {i \in 1..Len(map) : map[i].key = key}
    IN  IF hits = {} THEN 0 ELSE CHOOSE i \in hits : TRUE

\* portOutputs.get(key) || null
GetOutput(map, key) ==
    LET i == EntryIndex(map, key)
    IN  IF i = 0 THEN Null ELSE map[i].color

\* inbound ? (portOutputs.get(portKey(inbound.from)) || null) : null
InboundColor(conns, map, cid, pid) ==
    LET i == InboundIndex(conns, cid, pid)
    IN  IF i = 0 THEN Null ELSE GetOutput(map, PortKey(conns[i].from))

\* setPortOutput: [map, ret], ret the value returned.
SetPortOutput(map, key, color) ==
    LET i == EntryIndex(map, key)
        current == IF i = 0 THEN Null ELSE map[i].color
    IN  IF ColorsEqual(current, color)
        THEN [map |-> map, ret |-> FALSE]
        ELSE [map |-> IF i = 0 THEN Append(map, [key |-> key, color |-> color])
                      ELSE [map EXCEPT ![i].color = color],
              ret |-> TRUE]

\* A forEach that stops after the first port.
EmitFirstOnly(cid, ports, color, map, chg, i) ==
    IF ports = <<>> THEN [map |-> map, changed |-> chg]
    ELSE LET Then(r) == [map |-> r.map, changed |-> chg \/ r.ret]
         IN  Then(SetPortOutput(map, PortKey(Ref(cid, ports[1].id)), color))

\* ports.forEach(port => { if (setPortOutput(map, key(port), color)) changed = true })
RECURSIVE EmitAll(_, _, _, _, _, _)
EmitAll(cid, ports, color, map, chg, i) ==
    IF i > Len(ports) THEN [map |-> map, changed |-> chg]
    ELSE LET Then(r) == IF r.ret THEN EmitAll(cid, ports, color, r.map, TRUE, i + 1)
                                  ELSE EmitAll(cid, ports, color, r.map, chg, i + 1)
         IN  Then(SetPortOutput(map, PortKey(Ref(cid, ports[i].id)), color))

\* A second loop in which every flex port emits the first colour the storage
\* holds, whichever slot holds it.
RECURSIVE EmitStoredShared(_, _, _, _, _, _)
EmitStoredShared(cid, ports, slots, map, chg, i) ==
    IF i > Len(ports) THEN [map |-> map, changed |-> chg]
    ELSE IF ports[i].role # "flex"
         THEN EmitStoredShared(cid, ports, slots, map, chg, i + 1)
         ELSE LET held == {k \in 1..Len(ports) :
                              ports[k].role = "flex" /\ slots[ports[k].id] # Null}
                  shared == IF held = {} THEN Null
                            ELSE slots[ports[CHOOSE k \in held :
                                                 \A j \in held : k <= j].id]
                  Then(r) ==
                      IF r.ret THEN EmitStoredShared(cid, ports, slots, r.map, TRUE, i + 1)
                               ELSE EmitStoredShared(cid, ports, slots, r.map, chg, i + 1)
              IN  Then(SetPortOutput(map, PortKey(Ref(cid, ports[i].id)), shared))

\* The storage branch's second loop: each flex port emits what its slot holds.
RECURSIVE EmitStored(_, _, _, _, _, _)
EmitStored(cid, ports, slots, map, chg, i) ==
    IF i > Len(ports) THEN [map |-> map, changed |-> chg]
    ELSE IF ports[i].role # "flex"
         THEN EmitStored(cid, ports, slots, map, chg, i + 1)
         ELSE LET Then(r) ==
                      IF r.ret THEN EmitStored(cid, ports, slots, r.map, TRUE, i + 1)
                               ELSE EmitStored(cid, ports, slots, r.map, chg, i + 1)
              IN  Then(SetPortOutput(map, PortKey(Ref(cid, ports[i].id)),
                                     slots[ports[i].id]))

\* A first loop that keeps what a slot holds while nothing comes in.
StoreInboundLatched(component, conns, map) ==
    [pid \in DOMAIN component.storageSlots |->
        LET inboundColor == InboundColor(conns, map, component.id, pid)
            prev == component.storageSlots[pid]
        IN  IF inboundColor # Null THEN inboundColor ELSE prev]

\* A first loop that stores nothing.
StoreInboundKept(component, conns, map) == component.storageSlots

\* The storage branch's first loop: a slot takes the inbound colour when the
\* two differ (an unlinked port reads null).
StoreInbound(component, conns, map) ==
    [pid \in DOMAIN component.storageSlots |->
        LET inboundColor == InboundColor(conns, map, component.id, pid)
            prev == component.storageSlots[pid]
        IN  IF ~ColorsEqual(prev, inboundColor) THEN inboundColor ELSE prev]

\* What a component's turn leaves: [component, map, changed], r being what
\* its ports' setPortOutput calls left.
Turn(component, r) == [component |-> component, map |-> r.map, changed |-> r.changed]

\* A turn whose storage branch runs its second loop before its first: the
\* ports emit what the slots held, then the slots take the inbound colours.
ComputeComponentEmitFirst(component, conns, map, chg) ==
    CASE component.type = "factory" ->
            Turn(component,
                 EmitAll(component.id, PortsWithRole(component, "output"),
                         component.color, map, chg, 1))
      [] component.type = "adder" ->
            LET inputPorts == PortsWithRole(component, "input")
                OutColor(inputColors) ==
                    IF Len(inputColors) >= 2
                    THEN MixColors(inputColors[1], inputColors[2])
                    ELSE Null
            IN  Turn(component,
                     EmitAll(component.id, PortsWithRole(component, "output"),
                             OutColor(SelectSeq(
                                 [i \in 1..Len(inputPorts) |->
                                     InboundColor(conns, map, component.id, inputPorts[i].id)],
                                 LAMBDA c : c # Null)),
                             map, chg, 1))
      [] component.type = "gradientor" ->
            LET ins  == PortsWithRole(component, "input")
                outs == PortsWithRole(component, "output")
                inboundColor == IF ins = <<>> THEN Null
                                ELSE InboundColor(conns, map, component.id, ins[1].id)
                adjusted == AdjustColor(inboundColor,
                                IF component.mode = "darken" THEN "darken" ELSE "lighten")
            IN  Turn(component,
                     IF outs = <<>> THEN [map |-> map, changed |-> chg]
                     ELSE EmitAll(component.id, <<outs[1]>>, adjusted, map, chg, 1))
      [] component.type = "storage" ->
            First(StoreInbound(component, conns, map), LAMBDA slots :
                Turn([component EXCEPT !.storageSlots = slots],
                     EmitStored(component.id, component.ports, component.storageSlots,
                                map, chg \/ slots # component.storageSlots, 1)))
      [] OTHER -> [component |-> component, map |-> map, changed |-> chg]

\* One component's turn in a round of computeColors.
ComputeComponent(component, conns, map, chg) ==
    CASE component.type = "factory" ->
            Turn(component,
                 EmitAll(component.id, PortsWithRole(component, "output"),
                         component.color, map, chg, 1))
      [] component.type = "adder" ->
            LET inputPorts == PortsWithRole(component, "input")
                OutColor(inputColors) ==
                    IF Len(inputColors) >= 2
                    THEN MixColors(inputColors[1], inputColors[2])
                    ELSE Null
            IN  Turn(component,
                     EmitAll(component.id, PortsWithRole(component, "output"),
                             OutColor(SelectSeq(
                                 [i \in 1..Len(inputPorts) |->
                                     InboundColor(conns, map, component.id, inputPorts[i].id)],
                                 LAMBDA c : c # Null)),
                             map, chg, 1))
      [] component.type = "gradientor" ->
            LET ins  == PortsWithRole(component, "input")
                outs == PortsWithRole(component, "output")
                inboundColor == IF ins = <<>> THEN Null
                                ELSE InboundColor(conns, map, component.id, ins[1].id)
                adjusted == AdjustColor(inboundColor,
                                IF component.mode = "darken" THEN "darken" ELSE "lighten")
            IN  Turn(component,
                     IF outs = <<>> THEN [map |-> map, changed |-> chg]
                     ELSE EmitAll(component.id, <<outs[1]>>, adjusted, map, chg, 1))
      [] component.type = "storage" ->
            First(StoreInbound(component, conns, map), LAMBDA slots :
                Turn([component EXCEPT !.storageSlots = slots],
                     EmitStored(component.id, component.ports, slots, map,
                                chg \/ slots # component.storageSlots, 1)))
      [] OTHER -> [component |-> component, map |-> map, changed |-> chg]

\* components.forEach(...) of one round: [components, map, changed].
RECURSIVE ComputeRound(_, _, _, _, _)
ComputeRound(comps, conns, map, chg, i) ==
    IF i > Len(comps) THEN [components |-> comps, map |-> map, changed |-> chg]
    ELSE LET Then(r) == ComputeRound([comps EXCEPT ![i] = r.component], conns,
                                     r.map, r.changed, i + 1)
         IN  Then(ComputeComponent(comps[i], conns, map, chg))

\* A loop that goes on for as long as a round changes something.
RECURSIVE ComputeLoopUncapped(_, _, _, _, _)
ComputeLoopUncapped(comps, conns, map, chg, g) ==
    IF chg
    THEN LET Then(r) == ComputeLoopUncapped(r.components, conns, r.map, r.changed, g + 1)
         IN  Then(ComputeRound(comps, conns, map, FALSE, 1))
    ELSE [components |-> comps, map |-> map, changed |-> chg, guard |-> g]

\* while (changed && guard < 8) { changed = false; guard += 1; round }
RECURSIVE ComputeLoop(_, _, _, _, _)
ComputeLoop(comps, conns, map, chg, g) ==
    IF chg /\ g < MaxRounds
    THEN LET Then(r) == ComputeLoop(r.components, conns, r.map, r.changed, g + 1)
         IN  Then(ComputeRound(comps, conns, map, FALSE, 1))
    ELSE [components |-> comps, map |-> map, changed |-> chg, guard |-> g]

\* The port-output map as each round of that loop leaves it, first round
\* first.
RECURSIVE RoundMaps(_, _, _, _, _)
RoundMaps(comps, conns, map, chg, g) ==
    IF chg /\ g < MaxRounds
    THEN LET Then(r) ==
                 <<r.map>> \o RoundMaps(r.components, conns, r.map, r.changed, g + 1)
         IN  Then(ComputeRound(comps, conns, map, FALSE, 1))
    ELSE <<>>

\* A storage with no connection into it or none out of it.
LacksLinks(component, conns) ==
    \/ \A i \in 1..Len(conns) : conns[i].to.componentId # component.id
    \/ \A i \in 1..Len(conns) : conns[i].from.componentId # component.id

\* A warning kept only on a storage with no connection at all.
UpdateStorageWarningsUnlinked(comps, conns) ==
    [i \in 1..Len(comps) |->
        IF comps[i].type # "storage" THEN comps[i]
        ELSE [comps[i] EXCEPT !.warning =
                 /\ \A k \in 1..Len(conns) : conns[k].to.componentId # comps[i].id
                 /\ \A k \in 1..Len(conns) : conns[k].from.componentId # comps[i].id]]

\* updateStorageWarnings: a storage gets the warning text when it lacks an
\* inbound or an outbound connection, and loses it otherwise.
UpdateStorageWarnings(comps, conns) ==
    [i \in 1..Len(comps) |->
        IF comps[i].type # "storage" THEN comps[i]
        ELSE IF LacksLinks(comps[i], conns) THEN [comps[i] EXCEPT !.warning = TRUE]
        ELSE IF comps[i].warning THEN [comps[i] EXCEPT !.warning = FALSE]
        ELSE comps[i]]

\* What computeColors tells its caller once its loop is left with these
\* changed and guard: it has no return statement and logs nothing.
Reported(chg, g) == <<>>

\* computeColors: a fresh map, changed = true, guard = 0, then the loop, then
\* updateStorageWarnings.
ComputeColors(comps, conns) ==
    LET Then(r) == [components |-> UpdateStorageWarnings(r.components, conns),
                    map |-> r.map, changed |-> r.changed, guard |-> r.guard,
                    reported |-> Reported(r.changed, r.guard)]
    IN  Then(ComputeLoop(comps, conns, <<>>, TRUE, 0))

(***************************************************************************)
(* The connection resolver.                                                *)
(***************************************************************************)
\* canAccept that lets a second connection into a port.
CanAcceptAlways(conns, toRef) == TRUE

\* canAccept: no connection ends at the port.
CanAccept(conns, toRef) ==
    ~\E i \in 1..Len(conns) :
        conns[i].to.componentId = toRef.componentId /\ conns[i].to.portId = toRef.portId

\* canSend that never looks at the existing connections.
CanSendAlways(comps, conns, fromRef, fromPort) == TRUE

\* canSend without the exemption of adder and gradientor outputs.
CanSendOnce(comps, conns, fromRef, fromPort) ==
    ~\E i \in 1..Len(conns) :
        conns[i].from.componentId = fromRef.componentId
        /\ conns[i].from.portId = fromRef.portId

\* canSend: an adder's or a gradientor's output may fan out; any other port
\* may start one connection.
CanSend(comps, conns, fromRef, fromPort) ==
    LET ci == ComponentIndex(comps, fromRef.componentId)
        isAdderOutput == ci # 0 /\ comps[ci].type = "adder" /\ fromPort.role = "output"
        isGradientorOutput ==
            ci # 0 /\ comps[ci].type = "gradientor" /\ fromPort.role = "output"
    IN  IF isAdderOutput \/ isGradientorOutput THEN TRUE
        ELSE ~\E i \in 1..Len(conns) :
                 conns[i].from.componentId = fromRef.componentId
                 /\ conns[i].from.portId = fromRef.portId

NoLink == [ok |-> FALSE, from |-> NoRef, to |-> NoRef]

Link(from, to) == [ok |-> TRUE, from |-> from, to |-> to]

\* The role pairs with an output -> output branch added.
OrientationOutputs(firstRole, secondRole) ==
    CASE firstRole = "output" /\ secondRole = "input"  -> "forward"
      [] firstRole = "input"  /\ secondRole = "output" -> "backward"
      [] firstRole = "output" /\ secondRole = "flex"   -> "forward"
      [] firstRole = "flex"   /\ secondRole = "output" -> "backward"
      [] firstRole = "input"  /\ secondRole = "flex"   -> "backward"
      [] firstRole = "flex"   /\ secondRole = "input"  -> "forward"
      [] firstRole = "flex"   /\ secondRole = "flex"   -> "forward"
      [] firstRole = "output" /\ secondRole = "output" -> "forward"
      [] OTHER -> "none"

\* The role pairs with the input/flex branches returning toRef the other way.
OrientationInputFlex(firstRole, secondRole) ==
    CASE firstRole = "output" /\ secondRole = "input"  -> "forward"
      [] firstRole = "input"  /\ secondRole = "output" -> "backward"
      [] firstRole = "output" /\ secondRole = "flex"   -> "forward"
      [] firstRole = "flex"   /\ secondRole = "output" -> "backward"
      [] firstRole = "input"  /\ secondRole = "flex"   -> "forward"
      [] firstRole = "flex"   /\ secondRole = "input"  -> "backward"
      [] firstRole = "flex"   /\ secondRole = "flex"   -> "forward"
      [] OTHER -> "none"

\* The role pairs with the flex/flex branch returning toRef the other way.
OrientationFlexBackward(firstRole, secondRole) ==
    CASE firstRole = "output" /\ secondRole = "input"  -> "forward"
      [] firstRole = "input"  /\ secondRole = "output" -> "backward"
      [] firstRole = "output" /\ secondRole = "flex"   -> "forward"
      [] firstRole = "flex"   /\ secondRole = "output" -> "backward"
      [] firstRole = "input"  /\ secondRole = "flex"   -> "backward"
      [] firstRole = "flex"   /\ secondRole = "input"  -> "forward"
      [] firstRole = "flex"   /\ secondRole = "flex"   -> "backward"
      [] OTHER -> "none"

\* The role pairs with the input-first branches returning toRef as clicked.
OrientationAsClicked(firstRole, secondRole) ==
    CASE firstRole = "output" /\ secondRole = "input"  -> "forward"
      [] firstRole = "input"  /\ secondRole = "output" -> "forward"
      [] firstRole = "output" /\ secondRole = "flex"   -> "forward"
      [] firstRole = "flex"   /\ secondRole = "output" -> "backward"
      [] firstRole = "input"  /\ secondRole = "flex"   -> "forward"
      [] firstRole = "flex"   /\ secondRole = "input"  -> "forward"
      [] firstRole = "flex"   /\ secondRole = "flex"   -> "forward"
      [] OTHER -> "none"

\* Which way a pair of roles is linked: "forward" (first -> second),
\* "backward" (second -> first) or "none".
Orientation(firstRole, secondRole) ==
    CASE firstRole = "output" /\ secondRole = "input"  -> "forward"
      [] firstRole = "input"  /\ secondRole = "output" -> "backward"
      [] firstRole = "output" /\ secondRole = "flex"   -> "forward"
      [] firstRole = "flex"   /\ secondRole = "output" -> "backward"
      [] firstRole = "input"  /\ secondRole = "flex"   -> "backward"
      [] firstRole = "flex"   /\ secondRole = "input"  -> "forward"
      [] firstRole = "flex"   /\ secondRole = "flex"   -> "forward"
      [] OTHER -> "none"

\* resolveConnection: NoLink for null.
ResolveConnection(comps, conns, firstRef, secondRef) ==
    LET firstPort  == GetPort(comps, firstRef)
        secondPort == GetPort(comps, secondRef)
        way == Orientation(firstPort.role, secondPort.role)
    IN  IF firstPort = NoPort \/ secondPort = NoPort THEN NoLink
        ELSE IF way = "forward"
        THEN IF ~CanAccept(conns, secondRef) \/ ~CanSend(comps, conns, firstRef, firstPort)
             THEN NoLink ELSE Link(firstRef, secondRef)
        ELSE IF way = "backward"
        THEN IF ~CanAccept(conns, firstRef) \/ ~CanSend(comps, conns, secondRef, secondPort)
             THEN NoLink ELSE Link(secondRef, firstRef)
        ELSE NoLink

\* Why resolveConnection returned what it did (recorded in lastOp only).
ResolvePath(comps, conns, firstRef, secondRef) ==
    LET firstPort  == GetPort(comps, firstRef)
        secondPort == GetPort(comps, secondRef)
        way == Orientation(firstPort.role, secondPort.role)
        from == IF way = "forward" THEN firstRef ELSE secondRef
        to   == IF way = "forward" THEN secondRef ELSE firstRef
    IN  IF firstPort = NoPort \/ secondPort = NoPort THEN "missing"
        ELSE IF way = "none" THEN "roles"
        ELSE IF ~CanAccept(conns, to) THEN "canAccept"
        ELSE IF ~CanSend(comps, conns, from, GetPort(comps, from)) THEN "canSend"
        ELSE "resolved"

ConnectionExists(conns, fromRef, toRef) ==
    \E i \in 1..Len(conns) :
        /\ conns[i].from.componentId = fromRef.componentId
        /\ conns[i].from.portId = fromRef.portId
        /\ conns[i].to.componentId = toRef.componentId
        /\ conns[i].to.portId = toRef.portId

(***************************************************************************)
(* The user's inputs, and the bounds on them.                              *)
(***************************************************************************)
\* The user adds at most this many components.
MaxAdds == 2

\* The colours of the toolbar's factory buttons (data-color).
FactoryColors == {<<255, 0, 0>>, <<0, 0, 255>>}

Modes == {"darken", "lighten"}

\* What a toolbar button adds: [type, color, mode].
ToolbarButtons ==
    {[type |-> "factory", color |-> c, mode |-> NoMode] : c \in FactoryColors}
    \cup {[type |-> "adder", color |-> Null, mode |-> NoMode]}
    \cup {[type |-> "gradientor", color |-> Null, mode |-> m] : m \in Modes}
    \cup {[type |-> "storage", color |-> Null, mode |-> NoMode]}

\* Of a component's ports of one role, the user clicks only the first so many.
MaxClicked == 2

\* The ports of a component that get clicked.
ClickedPorts(component) ==
    {component.ports[k].id : k \in
        {k \in 1..Len(component.ports) :
            Cardinality({j \in 1..k : component.ports[j].role = component.ports[k].role})
                <= MaxClicked}}

\* The ports on the grid that get clicked.
PortRefs ==
    UNION {{Ref(components[i].id, pid) : pid \in ClickedPorts(components[i])} :
              i \in 1..Len(components)}

\* An id nextId never returns (its first is 2).
MissingId == 1

(***************************************************************************)
(* The handlers.                                                           *)
(***************************************************************************)
\* createComponent: the component object (ids from nextId).
CreateComponent(type, options, counter) ==
    LET id == counter + 1
        ports == BuildPorts(type, id)
    IN  [id |-> id, type |-> type, color |-> options.color, mode |-> options.mode,
         ports |-> ports,
         storageSlots |-> IF type = "storage"
                          THEN [pid \in {ports[k].id : k \in 1..Len(ports)} |-> Null]
                          ELSE <<>>,
         warning |-> FALSE]

\* A handler's tail without its computeColors() call.
RecomputeSkipped(comps, conns) ==
    /\ components' = comps
    /\ UNCHANGED <<portOutputs, changed, guard, reported>>

\* The state left by computeColors() run on comps and conns.
Recompute(comps, conns) ==
    LET Left(r) == /\ components' = r.components
                   /\ portOutputs' = r.map
                   /\ changed' = r.changed
                   /\ guard' = r.guard
                   /\ reported' = r.reported
    IN  Left(ComputeColors(comps, conns))

\* gameState as the script creates it.
InitialGameState ==
    [slot1Color |-> Null, slot2Color |-> Null, resultColor |-> Null,
     crabColor |-> <<245, 245, 245>>, selectedSlot |-> 1,
     discoveredColors |-> {<<255, 0, 0>>, <<255, 255, 0>>, <<0, 0, 255>>},
     inventoryFactories |-> {}]

\* The grid after init() (resetGrid on an empty grid), the mix-and-feed page
\* after initGame() (updateUI).
Init ==
    /\ components = <<>>
    /\ connections = <<>>
    /\ selectedPort = NoRef
    /\ idCounter = 1
    /\ portOutputs = <<>>
    /\ changed = FALSE
    /\ guard = 1
    /\ reported = <<>>
    /\ lastOp = "init"
    /\ added = 0
    /\ gameState = InitialGameState
    /\ mixBtnDisabled = ~(InitialGameState.slot1Color # Null
                            /\ InitialGameState.slot2Color # Null)
    /\ feedBtnDisabled = (InitialGameState.resultColor = Null)
    /\ feedTimers = <<>>

\* handleToolbarClick: add a component, computeColors.
HandleToolbarClick(button) ==
    LET component == CreateComponent(button.type, button, idCounter)
    IN  /\ idCounter' = idCounter + 1 + Len(component.ports)
        /\ Recompute(Append(components, component), connections)
        /\ lastOp' = "add"
        /\ added' = added + 1
        /\ UNCHANGED <<connections, selectedPort>>

\* A clearSelection that leaves the selection as it is.
KeepSelection(selected) == selected

\* clearSelection: selectedPort = null.
ClearSelection(selected) == NoRef

\* A handlePortClick that links every pair of ports of two components that
\* the roles orient, fed, linked already or not.
HandlePortClickUngated(portRef) ==
    LET way == Orientation(GetPort(components, selectedPort).role,
                           GetPort(components, portRef).role)
    IN  IF selectedPort = NoRef
        THEN /\ selectedPort' = portRef
             /\ lastOp' = "select"
             /\ UNCHANGED <<components, connections, idCounter, portOutputs,
                            changed, guard, reported, added>>
        ELSE IF selectedPort.componentId = portRef.componentId \/ way = "none"
        THEN /\ selectedPort' = NoRef
             /\ lastOp' = "roles"
             /\ UNCHANGED <<components, connections, idCounter, portOutputs,
                            changed, guard, reported, added>>
        ELSE /\ idCounter' = idCounter + 1
             /\ connections' = Append(connections,
                    [id |-> idCounter + 1,
                     from |-> IF way = "forward" THEN selectedPort ELSE portRef,
                     to   |-> IF way = "forward" THEN portRef ELSE selectedPort])
             /\ selectedPort' = NoRef
             /\ Recompute(components, connections')
             /\ lastOp' = "connected"
             /\ UNCHANGED added

\* handlePortClick: the first click selects; the second links, or clears.
HandlePortClick(portRef) ==
    LET resolved == ResolveConnection(components, connections, selectedPort, portRef)
        path == ResolvePath(components, connections, selectedPort, portRef)
    IN  IF selectedPort = NoRef
        THEN /\ selectedPort' = portRef
             /\ lastOp' = "select"
             /\ UNCHANGED <<components, connections, idCounter, portOutputs,
                            changed, guard, reported, added>>
        ELSE IF selectedPort.componentId = portRef.componentId
        THEN /\ selectedPort' = ClearSelection(selectedPort)
             /\ lastOp' = "sameComponent"
             /\ UNCHANGED <<components, connections, idCounter, portOutputs,
                            changed, guard, reported, added>>
        ELSE IF ~resolved.ok
        THEN /\ selectedPort' = ClearSelection(selectedPort)
             /\ lastOp' = path
             /\ UNCHANGED <<components, connections, idCounter, portOutputs,
                            changed, guard, reported, added>>
        ELSE IF ConnectionExists(connections, resolved.from, resolved.to)
        THEN /\ selectedPort' = ClearSelection(selectedPort)
             /\ lastOp' = "duplicate"
             /\ UNCHANGED <<components, connections, idCounter, portOutputs,
                            changed, guard, reported, added>>
        ELSE /\ idCounter' = idCounter + 1
             /\ connections' = Append(connections,
                    [id |-> idCounter + 1, from |-> resolved.from, to |-> resolved.to])
             /\ selectedPort' = ClearSelection(selectedPort)
             /\ Recompute(components, connections')
             /\ lastOp' = "connected"
             /\ UNCHANGED added

\* The filter keeping the connections that do not start at the component.
ConnectionsNotFrom(conns, componentId) ==
    SelectSeq(conns, LAMBDA conn : conn.from.componentId # componentId)

\* connections.filter(...) of deleteComponent.
ConnectionsWithout(conns, componentId) ==
    SelectSeq(conns, LAMBDA conn : conn.from.componentId # componentId
                                   /\ conn.to.componentId # componentId)

\* deleteComponent: drop the component and every connection touching it.
DeleteComponent(componentId) ==
    LET idx == ComponentIndex(components, componentId)
        rest == ConnectionsWithout(connections, componentId)
    IN  IF idx = 0
        THEN /\ lastOp' = "deleteMissing"
             /\ UNCHANGED <<components, connections, selectedPort, idCounter,
                            portOutputs, changed, guard, reported, added>>
        ELSE /\ selectedPort' =
                    IF selectedPort # NoRef /\ selectedPort.componentId = componentId
                    THEN ClearSelection(selectedPort) ELSE selectedPort
             /\ connections' = rest
             /\ Recompute([i \in 1..(Len(components) - 1) |->
                              IF i < idx THEN components[i] ELSE components[i + 1]],
                          rest)
             /\ lastOp' = IF rest # connections THEN "deletedLinked" ELSE "deleted"
             /\ UNCHANGED <<idCounter, added>>

\* A resetGrid that empties the connections and leaves the components.
ResetGridKeepComponents ==
    /\ connections' = <<>>
    /\ Recompute(components, <<>>)
    /\ lastOp' = IF connections # <<>> THEN "resetLinked" ELSE "resetGrid"
    /\ UNCHANGED <<selectedPort, idCounter, added>>

\* A resetGrid that also starts the id counter again.
ResetGridRestartIds ==
    /\ connections' = <<>>
    /\ Recompute(<<>>, <<>>)
    /\ idCounter' = 1
    /\ lastOp' = IF connections # <<>> THEN "resetLinked" ELSE "resetGrid"
    /\ UNCHANGED <<selectedPort, added>>

\* resetGrid: no components, no connections, computeColors.
ResetGrid ==
    /\ connections' = <<>>
    /\ Recompute(<<>>, <<>>)
    /\ lastOp' = IF connections # <<>> THEN "resetLinked" ELSE "resetGrid"
    /\ UNCHANGED <<selectedPort, idCounter, added>>

\* setupDragging's onUp: a component was moved; computeColors.
DragEnd ==
    /\ components # <<>>
    /\ Recompute(components, connections)
    /\ lastOp' = "dragEnd"
    /\ UNCHANGED <<connections, selectedPort, idCounter, added>>

\* The calls that change nothing on the grid (a delete of an unknown id, the
\* end of a drag) come right after a component was added or a link made.
AfterEdit == lastOp \in {"add", "connected"}

Next ==
    \/ \E button \in ToolbarButtons :
          added < MaxAdds /\ HandleToolbarClick(button) /\ UNCHANGED crabVars
    \/ \E portRef \in PortRefs : HandlePortClick(portRef) /\ UNCHANGED crabVars
    \/ \E componentId \in {components[i].id : i \in 1..Len(components)} :
          DeleteComponent(componentId) /\ UNCHANGED crabVars
    \/ AfterEdit /\ DeleteComponent(MissingId) /\ UNCHANGED crabVars
    \/ ResetGrid /\ UNCHANGED crabVars
    \/ AfterEdit /\ DragEnd /\ UNCHANGED crabVars

Spec == Init /\ [][Next]_vars

(***************************************************************************)
(* A second user, who lays out a chain of components back to front (the    *)
(* component fed last in the chain is added first, a factory, if any,      *)
(* last) and then wires it towards the factory, so that colour has to      *)
(* travel against the order in which computeColors visits the components.  *)
(***************************************************************************)
\* The chain has at most this many components.
MaxDeep == 9

\* The buttons this user presses.
DeepButtons ==
    {[type |-> "factory", color |-> <<255, 0, 0>>, mode |-> NoMode],
     [type |-> "adder", color |-> Null, mode |-> NoMode],
     [type |-> "gradientor", color |-> Null, mode |-> "darken"],
     [type |-> "storage", color |-> Null, mode |-> NoMode]}

\* The port of a component this user links from: its first output or flex port.
DeepSource(component) ==
    SelectSeq(component.ports, LAMBDA p : p.role \in {"output", "flex"})[1]

\* The ports this user links to: the inputs, or a storage's first port.
DeepSinks(component) ==
    IF component.type = "storage" THEN <<component.ports[1]>>
    ELSE PortsWithRole(component, "input")

\* The links into components[i] from the component added right after it.
DeepLinksInto(comps, i) ==
    [k \in 1..Len(DeepSinks(comps[i])) |->
        [from |-> Ref(comps[i + 1].id, DeepSource(comps[i + 1]).id),
         to   |-> Ref(comps[i].id, DeepSinks(comps[i])[k].id)]]

RECURSIVE DeepChain(_, _)
DeepChain(comps, i) ==
    IF i < 1 THEN <<>> ELSE DeepChain(comps, i - 1) \o DeepLinksInto(comps, i)

\* The links this user makes, in order: the chain, from the component added
\* first to the one added last, then, with no factory at its head, a link
\* from the chain's tail back to its head.
DeepPlan(comps) ==
    LET n == Len(comps)
    IN  DeepChain(comps, n - 1)
        \o (IF n >= 2 /\ comps[n].type # "factory"
            THEN <<[from |-> Ref(comps[1].id, DeepSource(comps[1]).id),
                    to   |-> Ref(comps[n].id, DeepSinks(comps[n])[1].id)]>>
            ELSE <<>>)

\* Components are added while nothing is linked: an adder only first, then
\* gradientors only or storages only, and nothing after a factory.
DeepAdd(button) ==
    /\ connections = <<>>
    /\ selectedPort = NoRef
    /\ Len(components) < MaxDeep
    /\ \A i \in 1..Len(components) : components[i].type # "factory"
    /\ button.type = "adder" => components = <<>>
    /\ button.type \in {"gradientor", "storage"} =>
           \A i \in 1..Len(components) : components[i].type \in {"adder", button.type}
    /\ HandleToolbarClick(button)

\* The next link of the plan: a click on its source, then one on its sink.
DeepClick ==
    LET plan == DeepPlan(components)
        k == Len(connections) + 1
    IN  /\ k <= Len(plan)
        /\ HandlePortClick(IF selectedPort = NoRef THEN plan[k].from ELSE plan[k].to)

\* A component is dragged right after a link was made.
DeepDrag ==
    /\ lastOp = "connected"
    /\ DragEnd

NextDeep ==
    \/ \E button \in DeepButtons : DeepAdd(button) /\ UNCHANGED crabVars
    \/ DeepClick /\ UNCHANGED crabVars
    \/ DeepDrag /\ UNCHANGED crabVars

SpecDeep == Init /\ [][NextDeep]_vars

(***************************************************************************)
(* A third user, who tries the gradientors: a gradientor of either mode,   *)
(* then a factory of any of a range of colours, the factory's first output *)
(* linked to the gradientor's input.                                       *)
(***************************************************************************)
\* The largest value of a colour channel.
MaxChannel == 255

\* The colours of this user's factories: every channel takes every value.
AdjustPalette ==
    {<<v, MaxChannel - v, (v + 128) % (MaxChannel + 1)>> : v \in 0..MaxChannel}

AdjustButtons ==
    {[type |-> "gradientor", color |-> Null, mode |-> m] : m \in Modes}
    \cup {[type |-> "factory", color |-> c, mode |-> NoMode] : c \in AdjustPalette}

\* The gradientor is added first, the factory second.
AdjustAdd(button) ==
    /\ button.type = (IF components = <<>> THEN "gradientor" ELSE "factory")
    /\ Len(components) < 2
    /\ HandleToolbarClick(button)

\* The factory's first output is clicked, then the gradientor's input.
AdjustClick ==
    /\ Len(components) = 2
    /\ connections = <<>>
    /\ HandlePortClick(IF selectedPort = NoRef
                       THEN Ref(components[2].id, components[2].ports[1].id)
                       ELSE Ref(components[1].id, components[1].ports[1].id))

NextAdjust ==
    \/ \E button \in AdjustButtons : AdjustAdd(button) /\ UNCHANGED crabVars
    \/ AdjustClick /\ UNCHANGED crabVars

SpecAdjust == Init /\ [][NextAdjust]_vars

(***************************************************************************)
(* A fourth user, who tries the adder: an adder, then two factories of     *)
(* colours of a palette, the first factory's first output linked to the    *)
(* adder's first input, the second factory's to its second input.          *)
(***************************************************************************)
\* The colours of this user's factories: the primaries, black, white, the
\* secondaries and some colours in between.
MixPalette ==
    {<<255, 0, 0>>, <<255, 255, 0>>, <<0, 0, 255>>, <<0, 0, 0>>, <<255, 255, 255>>,
     <<0, 255, 0>>, <<128, 0, 128>>, <<255, 128, 0>>, <<245, 245, 245>>,
     <<10, 20, 30>>, <<200, 100, 50>>}

MixButtons ==
    {[type |-> "adder", color |-> Null, mode |-> NoMode]}
    \cup {[type |-> "factory", color |-> c, mode |-> NoMode] : c \in MixPalette}

\* The adder is added first, the two factories after it.
MixAdd(button) ==
    /\ button.type = (IF components = <<>> THEN "adder" ELSE "factory")
    /\ Len(components) < 3
    /\ HandleToolbarClick(button)

\* The k-th link: the first output of the k-th factory, then the k-th input
\* of the adder.
MixClick ==
    LET k == Len(connections) + 1
    IN  /\ Len(components) = 3
        /\ k <= 2
        /\ HandlePortClick(IF selectedPort = NoRef
                           THEN Ref(components[k + 1].id, components[k + 1].ports[1].id)
                           ELSE Ref(components[1].id, components[1].ports[k].id))

NextMix ==
    \/ \E button \in MixButtons : MixAdd(button) /\ UNCHANGED crabVars
    \/ MixClick /\ UNCHANGED crabVars

SpecMix == Init /\ [][NextMix]_vars

(***************************************************************************)
(* A fifth user, who closes loops: components are added while nothing is   *)
(* linked (a factory last, if at all), then links are made, each by a      *)
(* click on a port that may start it and a click on a port of another      *)
(* component that may end it, and the factory may be deleted in between.   *)
(***************************************************************************)
\* This user adds at most this many components.
MaxCycle == 3

\* This user has at most this many links at a time.
MaxLinks == 3

CycleButtons ==
    {[type |-> "factory", color |-> <<255, 0, 0>>, mode |-> NoMode],
     [type |-> "adder", color |-> Null, mode |-> NoMode],
     [type |-> "gradientor", color |-> Null, mode |-> "darken"],
     [type |-> "storage", color |-> Null, mode |-> NoMode]}

\* The ports this user clicks: of each component the first port of each
\* role, and both inputs of an adder.
CyclePorts ==
    UNION {{Ref(components[i].id, components[i].ports[k].id) :
               k \in {k \in 1..Len(components[i].ports) :
                         \/ \A j \in 1..(k - 1) :
                               components[i].ports[j].role # components[i].ports[k].role
                         \/ components[i].ports[k].role = "input"}} :
              i \in 1..Len(components)}

CycleAdd(button) ==
    /\ added < MaxCycle
    /\ connections = <<>>
    /\ selectedPort = NoRef
    /\ \A i \in 1..Len(components) : components[i].type # "factory"
    /\ button.type = "factory" => added = MaxCycle - 1
    /\ HandleToolbarClick(button)

CycleClick(portRef) ==
    /\ added = MaxCycle
    /\ Len(connections) < MaxLinks
    /\ IF selectedPort = NoRef
       THEN GetPort(components, portRef).role \in {"output", "flex"}
       ELSE /\ GetPort(components, portRef).role \in {"input", "flex"}
            /\ portRef.componentId # selectedPort.componentId
    /\ HandlePortClick(portRef)

\* The factory's delete button.
CycleDelete(componentId) ==
    /\ selectedPort = NoRef
    /\ connections # <<>>
    /\ components[ComponentIndex(components, componentId)].type = "factory"
    /\ DeleteComponent(componentId)

NextCycle ==
    \/ \E button \in CycleButtons : CycleAdd(button) /\ UNCHANGED crabVars
    \/ \E portRef \in CyclePorts : CycleClick(portRef) /\ UNCHANGED crabVars
    \/ \E componentId \in {components[i].id : i \in 1..Len(components)} :
          CycleDelete(componentId) /\ UNCHANGED crabVars

SpecCycle == Init /\ [][NextCycle]_vars

(***************************************************************************)
(* The mix-and-feed page: two slots filled from the colour factories of    *)
(* the palette, a Mix button, a Clear button, a Feed button and the crab.  *)
(***************************************************************************)
\* The user places at most this many factories from the inventory.
MaxPlaced == 1

\* At most this many feeds wait for their timeout at a time.
MaxPending == 2

\* Of the page's own factories the user clicks these (and any factory placed
\* from the inventory).
ClickedFactories == {<<255, 0, 0>>, <<0, 0, 255>>}

\* An updateUI that enables the Feed button as it does the Mix button.
UpdateUIBySlots(state) ==
    [mixBtn  |-> ~(state.slot1Color # Null /\ state.slot2Color # Null),
     feedBtn |-> ~(state.slot1Color # Null /\ state.slot2Color # Null)]

\* updateUI: the disabled flags for a gameState.
UpdateUI(state) ==
    [mixBtn  |-> ~(state.slot1Color # Null /\ state.slot2Color # Null),
     feedBtn |-> state.resultColor = Null]

\* A handler leaves gameState as state and calls updateUI().
Shown(state) ==
    /\ gameState' = state
    /\ mixBtnDisabled' = UpdateUI(state).mixBtn
    /\ feedBtnDisabled' = UpdateUI(state).feedBtn

\* fillSlot, up to its updateUI().
FillSlot(state, slotNum, color) ==
    LET filled == IF slotNum = 1 THEN [state EXCEPT !.slot1Color = color]
                  ELSE [state EXCEPT !.slot2Color = color]
    IN  IF slotNum = 1 /\ filled.slot2Color = Null
        THEN [filled EXCEPT !.selectedSlot = 2]
        ELSE filled

\* A clearFactory that leaves the result.
ClearFactoryKeepResult(state) ==
    [state EXCEPT !.slot1Color = Null, !.slot2Color = Null, !.selectedSlot = 1]

\* clearFactory, up to its updateUI().
ClearFactory(state) ==
    [state EXCEPT !.slot1Color = Null, !.slot2Color = Null,
                  !.resultColor = Null, !.selectedSlot = 1]

\* handleFactoryClick: a factory of the palette fills the first empty slot;
\* with both full, the factory is cleared and the colour goes to slot 1.
HandleFactoryClick(color) ==
    /\ Shown(IF gameState.slot1Color = Null THEN FillSlot(gameState, 1, color)
             ELSE IF gameState.slot2Color = Null THEN FillSlot(gameState, 2, color)
             ELSE FillSlot(ClearFactory(gameState), 1, color))
    /\ lastOp' = "fillSlot"
    /\ UNCHANGED feedTimers

\* mixFactoryColors: with both slots filled, the result is their mix; a
\* colour neither discovered nor in the inventory gets a factory there.
MixFactoryColors ==
    IF gameState.slot1Color = Null \/ gameState.slot2Color = Null
    THEN /\ lastOp' = "mixSkipped"
         /\ UNCHANGED crabVars
    ELSE LET Then(mixed) ==
                 /\ Shown([gameState EXCEPT
                              !.resultColor = mixed,
                              !.inventoryFactories =
                                  IF /\ mixed \notin gameState.discoveredColors
                                     /\ mixed \notin gameState.inventoryFactories
                                  THEN @ \cup {mixed} ELSE @])
                 /\ lastOp' = "mixed"
                 /\ UNCHANGED feedTimers
         IN  Then(MixColors(gameState.slot1Color, gameState.slot2Color))

\* handleInventoryFactoryClick: the factory moves from the inventory to the
\* palette.
HandleInventoryFactoryClick(colorKey) ==
    /\ gameState' = [gameState EXCEPT !.discoveredColors = @ \cup {colorKey},
                                      !.inventoryFactories = @ \ {colorKey}]
    /\ lastOp' = "placed"
    /\ UNCHANGED <<mixBtnDisabled, feedBtnDisabled, feedTimers>>

\* The Clear button: clearFactory.
ClearClick ==
    /\ Shown(ClearFactory(gameState))
    /\ lastOp' = "cleared"
    /\ UNCHANGED feedTimers

\* feedCrab: with a result, its colour is captured by a 600 ms timeout and
\* the result is cleared.
FeedCrab ==
    IF gameState.resultColor = Null
    THEN /\ lastOp' = "feedSkipped"
         /\ UNCHANGED crabVars
    ELSE /\ feedTimers' = Append(feedTimers, gameState.resultColor)
         /\ Shown([gameState EXCEPT !.resultColor = Null])
         /\ lastOp' = "fed"

\* A timeout that blends the fed colour with the crab's colour.
FeedTimeoutBlended ==
    /\ feedTimers # <<>>
    /\ gameState' = [gameState EXCEPT
                        !.crabColor = MixColorsRgbAverage(@, Head(feedTimers))]
    /\ feedTimers' = Tail(feedTimers)
    /\ lastOp' = "feedTimeout"
    /\ UNCHANGED <<mixBtnDisabled, feedBtnDisabled>>

\* The 600 ms timeout of the oldest feed fires: the crab takes its colour.
FeedTimeout ==
    /\ feedTimers # <<>>
    /\ gameState' = [gameState EXCEPT !.crabColor = Head(feedTimers)]
    /\ feedTimers' = Tail(feedTimers)
    /\ lastOp' = "feedTimeout"
    /\ UNCHANGED <<mixBtnDisabled, feedBtnDisabled>>

NextCrab ==
    \/ \E color \in ClickedFactories
                      \cup (gameState.discoveredColors \ InitialGameState.discoveredColors) :
          HandleFactoryClick(color) /\ UNCHANGED gridVars
    \/ MixFactoryColors /\ UNCHANGED gridVars
    \/ \E colorKey \in gameState.inventoryFactories :
          /\ Cardinality(gameState.discoveredColors)
                < Cardinality(InitialGameState.discoveredColors) + MaxPlaced
          /\ HandleInventoryFactoryClick(colorKey)
          /\ UNCHANGED gridVars
    \/ ClearClick /\ UNCHANGED gridVars
    \/ (gameState.resultColor # Null => Len(feedTimers) < MaxPending)
          /\ FeedCrab /\ UNCHANGED gridVars
    \/ FeedTimeout /\ UNCHANGED gridVars

SpecCrab == Init /\ [][NextCrab]_vars

\* The event loop runs every timeout that is due.
SpecCrabFair == SpecCrab /\ WF_vars(FeedTimeout /\ UNCHANGED gridVars)

(***************************************************************************)
(* Properties of the wiring.                                               *)
(***************************************************************************)
\* The component a port reference names, or 0.
OwnerIndex(ref) == ComponentIndex(components, ref.componentId)

\* The role of the port a reference names ("none" when it is gone).
RoleOf(ref) == GetPort(components, ref).role

\* The connections that start at, or end at, a port.
LinksFrom(ref) == {i \in 1..Len(connections) : connections[i].from = ref}

LinksTo(ref) == {i \in 1..Len(connections) : connections[i].to = ref}

\* An output port of an adder or of a gradientor.
IsFanOutPort(ref) ==
    /\ OwnerIndex(ref) # 0
    /\ components[OwnerIndex(ref)].type \in {"adder", "gradientor"}
    /\ RoleOf(ref) = "output"

\* C1: no port is the `to' endpoint of more than one connection.
C1_OneInbound ==
    \A i, j \in 1..Len(connections) :
        connections[i].to = connections[j].to => i = j

\* C1: a second connection into a fed port was refused, the first still there.
C1_Witness ==
    /\ lastOp = "canAccept"
    /\ connections # <<>>

\* C2: a port that starts two or more connections is an output of an adder
\* or of a gradientor; a factory output and a storage port start at most one.
C2_FanOutOnlyFromPure ==
    \A i, j \in 1..Len(connections) :
        (i # j /\ connections[i].from = connections[j].from)
            => IsFanOutPort(connections[i].from)

\* C2: a second connection out of a factory or storage port was refused.
C2_Witness ==
    /\ lastOp = "canSend"
    /\ \E i \in 1..Len(connections) :
          components[OwnerIndex(connections[i].from)].type \in {"factory", "storage"}

\* A click on second, first being selected, that tries to link an adder's or
\* gradientor's output `out' to the unfed input or flex port `in' of another
\* component.
FanOutAttempt(out, in) ==
    /\ IsFanOutPort(out)
    /\ RoleOf(in) \in {"input", "flex"}
    /\ in.componentId # out.componentId
    /\ LinksTo(in) = {}

\* C3: such an attempt adds the connection out -> in, however many
\* connections the output already starts.
C3_FanOutAccepted ==
    [][\A portRef \in PortRefs :
          (selectedPort # NoRef /\ HandlePortClick(portRef)) =>
              /\ FanOutAttempt(selectedPort, portRef) =>
                    /\ Len(connections') = Len(connections) + 1
                    /\ connections'[Len(connections')].from = selectedPort
                    /\ connections'[Len(connections')].to = portRef
              /\ FanOutAttempt(portRef, selectedPort) =>
                    /\ Len(connections') = Len(connections) + 1
                    /\ connections'[Len(connections')].from = portRef
                    /\ connections'[Len(connections')].to = selectedPort]_vars

\* C3: the connection just added starts at a port that already started one.
C3_Witness ==
    /\ lastOp = "connected"
    /\ Cardinality(LinksFrom(connections[Len(connections)].from)) >= 2

\* Two ports that may not be linked: both outputs, both inputs, or ports of
\* one component.
IllegalPair(first, second) ==
    \/ RoleOf(first) = "output" /\ RoleOf(second) = "output"
    \/ RoleOf(first) = "input" /\ RoleOf(second) = "input"
    \/ first.componentId = second.componentId

\* C4: a connect attempt on such a pair leaves the connections as they were
\* (and ends with nothing selected).
C4_IllegalPairRejected ==
    [][\A portRef \in PortRefs :
          (selectedPort # NoRef /\ IllegalPair(selectedPort, portRef)
              /\ HandlePortClick(portRef)) =>
                 /\ connections' = connections
                 /\ portOutputs' = portOutputs
                 /\ selectedPort' = NoRef]_vars

\* C4: two outputs, or two inputs, of different components were refused.
C4_Witness ==
    /\ lastOp = "roles"
    /\ connections # <<>>

\* C5: every connection runs from an output or flex port to an input or flex
\* port of another component.
C5_OrientedByRole ==
    \A i \in 1..Len(connections) :
        /\ RoleOf(connections[i].from) \in {"output", "flex"}
        /\ RoleOf(connections[i].to) \in {"input", "flex"}
        /\ connections[i].from.componentId # connections[i].to.componentId

\* C5: a connection flex -> input was just made.
C5_Witness ==
    /\ lastOp = "connected"
    /\ RoleOf(connections[Len(connections)].from) = "flex"
    /\ RoleOf(connections[Len(connections)].to) = "input"

\* The ports on the grid, as keys of the port-output map.
PortKeys ==
    UNION {{<<components[i].id, components[i].ports[k].id>> :
               k \in 1..Len(components[i].ports)} : i \in 1..Len(components)}

\* C6: both ends of every connection are ports of components on the grid (so
\* none names a deleted component), and the map computeColors leaves names
\* only such ports.
C6_EndpointsExist ==
    /\ \A i \in 1..Len(connections) :
          /\ PortKey(connections[i].from) \in PortKeys
          /\ PortKey(connections[i].to) \in PortKeys
    /\ \A i \in 1..Len(portOutputs) : portOutputs[i].key \in PortKeys

\* C6: a component was deleted, and connections with it, another staying.
C6_Witness ==
    /\ lastOp = "deletedLinked"
    /\ components # <<>>

(***************************************************************************)
(* Properties of the colours computeColors leaves.                         *)
(***************************************************************************)
\* What the last computeColors left on a port of a component.
Emitted(cid, pid) == GetOutput(portOutputs, PortKey(Ref(cid, pid)))

\* What the source of the connection into a port emits (null with no
\* connection into it).
SourceColor(cid, pid) == InboundColor(connections, portOutputs, cid, pid)

\* A port with a connection into it.
Fed(cid, pid) == InboundIndex(connections, cid, pid) # 0

\* The components that one of ids feeds directly.
FedBy(ids) ==
    {connections[i].to.componentId :
        i \in {j \in 1..Len(connections) : connections[j].from.componentId \in ids}}

RECURSIVE Downstream(_, _)
Downstream(ids, n) ==
    IF n = 0 THEN ids ELSE Downstream(ids \cup FedBy(ids), n - 1)

\* No component feeds itself, directly or through others.
Acyclic ==
    \A i \in 1..Len(components) :
        components[i].id \notin Downstream(FedBy({components[i].id}), Len(components))

\* An adder's outputs carry the mix of what the sources of its two inputs
\* emit, and nothing unless both emit a colour.
AdderMixes(component) ==
    LET ins == PortsWithRole(component, "input")
        a == SourceColor(component.id, ins[1].id)
        b == SourceColor(component.id, ins[2].id)
        expected == IF a # Null /\ b # Null THEN MixColors(a, b) ELSE Null
    IN  \A k \in 1..Len(component.ports) :
            component.ports[k].role = "output"
                => ColorsEqual(Emitted(component.id, component.ports[k].id), expected)

\* A gradientor's output carries the adjusted colour of its input's source.
GradientorAdjusts(component) ==
    LET ins  == PortsWithRole(component, "input")
        outs == PortsWithRole(component, "output")
    IN  ColorsEqual(Emitted(component.id, outs[1].id),
                    AdjustColor(SourceColor(component.id, ins[1].id), component.mode))

\* Every fed port of a storage holds and emits what its source emits.
StorageHolds(component) ==
    \A k \in 1..Len(component.ports) :
        LET pid == component.ports[k].id
        IN  Fed(component.id, pid) =>
                /\ ColorsEqual(component.storageSlots[pid], SourceColor(component.id, pid))
                /\ ColorsEqual(Emitted(component.id, pid), SourceColor(component.id, pid))

\* C7: with an acyclic wiring, whatever the number of components and their
\* order, the port-output map computeColors leaves is a fixed point: every
\* adder output is the mix of its two sources (absent unless both emit),
\* every gradientor output the adjusted colour of its source, every fed
\* storage port holds and emits the colour of its source.
C7_FixedPoint ==
    Acyclic =>
        \A i \in 1..Len(components) :
            /\ components[i].type = "adder" => AdderMixes(components[i])
            /\ components[i].type = "gradientor" => GradientorAdjusts(components[i])
            /\ components[i].type = "storage" => StorageHolds(components[i])

\* C8: computeColors stops after at most eight rounds, and before the eighth
\* only on a round that changed nothing.
C8_AtMostEightRounds ==
    /\ guard \in 1..MaxRounds
    /\ changed => guard = MaxRounds

\* C8: a computeColors that used up its rounds, the last one still changing
\* something.
C8_Witness ==
    /\ guard = MaxRounds
    /\ changed
    /\ lastOp = "connected"

\* C9: an adder with both inputs fed emits the mix of what the two sources
\* emit exactly when both emit a colour, and nothing otherwise.
C9_AdderOutput ==
    \A i \in 1..Len(components) :
        LET ins == PortsWithRole(components[i], "input")
        IN  (/\ components[i].type = "adder"
             /\ \A k \in 1..Len(ins) : Fed(components[i].id, ins[k].id))
                => AdderMixes(components[i])

\* C10: a computeColors that follows another with the grid untouched (the
\* end of a drag) leaves the same colour, or none, on every port.
C10_Idempotent ==
    [][DragEnd =>
        \A key \in PortKeys :
            ColorsEqual(GetOutput(portOutputs', key), GetOutput(portOutputs, key))]_vars

\* C10: a drag ended on a grid where computeColors uses up its rounds and
\* leaves colours behind.
C10_Witness ==
    /\ lastOp = "dragEnd"
    /\ guard = MaxRounds
    /\ changed
    /\ portOutputs # <<>>

(***************************************************************************)
(* Properties of what a storage holds.                                     *)
(***************************************************************************)
\* C11: from one state to the next, the colour a storage port holds changes
\* only if the port has a connection into it; the held colour of a port
\* with no connection into it stays (as after its feeder was deleted).
C11_HeldKeptWhenUnfed ==
    [][\A i \in 1..Len(components), j \in 1..Len(components') :
          (/\ components[i].type = "storage"
           /\ components'[j].id = components[i].id)
              => \A pid \in DOMAIN components[i].storageSlots :
                    InboundIndex(connections', components[i].id, pid) = 0
                        => ColorsEqual(components'[j].storageSlots[pid],
                                       components[i].storageSlots[pid])]_vars

\* C12: when computeColors stopped on a round that changed nothing, every
\* storage port with a connection into it holds the colour the source of
\* that connection emits, and every storage port emits what it holds.
C12_StorageHoldsSource ==
    ~changed =>
        \A i \in 1..Len(components) :
            components[i].type = "storage" =>
                \A pid \in DOMAIN components[i].storageSlots :
                    /\ Fed(components[i].id, pid) =>
                           ColorsEqual(components[i].storageSlots[pid],
                                       SourceColor(components[i].id, pid))
                    /\ ColorsEqual(Emitted(components[i].id, pid),
                                   components[i].storageSlots[pid])

\* C12: computeColors converged with a storage port fed a colour, which it
\* holds.
C12_Witness ==
    /\ ~changed
    /\ connections # <<>>
    /\ \E i \in 1..Len(components) :
          /\ components[i].type = "storage"
          /\ \E pid \in DOMAIN components[i].storageSlots :
                /\ Fed(components[i].id, pid)
                /\ components[i].storageSlots[pid] # Null

\* C13: a storage shows the warning exactly when no connection ends on it or
\* none starts on it (other components never show it), and it stays on the
\* grid.
C13_WarningIffLacksLinks ==
    \A i \in 1..Len(components) :
        components[i].warning <=>
            (/\ components[i].type = "storage"
             /\ \/ ~\E k \in 1..Len(connections) :
                       connections[k].to.componentId = components[i].id
                \/ ~\E k \in 1..Len(connections) :
                       connections[k].from.componentId = components[i].id)

\* C13: the link just made gave a storage its second side, and the warning
\* it showed is gone.
C13_Witness ==
    /\ lastOp = "connected"
    /\ \E i \in 1..Len(components) :
          /\ components[i].type = "storage"
          /\ ~components[i].warning
          /\ \E k \in 1..Len(connections) : connections[k].to.componentId = components[i].id
          /\ \E k \in 1..Len(connections) : connections[k].from.componentId = components[i].id


(***************************************************************************)
(* Properties of the gradientor and of the factory.                        *)
(***************************************************************************)
\* C14: a gradientor's output carries the adjusted colour of what the source
\* of its input emits, and nothing when the input is unlinked or its source
\* emits nothing; darkening [200,100,50] gives [160,80,40].
C14_GradientorOutput ==
    /\ AdjustColor(<<200, 100, 50>>, "darken") = <<160, 80, 40>>
    /\ \A i \in 1..Len(components) :
          components[i].type = "gradientor" => GradientorAdjusts(components[i])


\* C15: adjust of a colour with channels in 0..255 has its channels in
\* 0..255 in either mode; darkening raises no channel and brightening lowers
\* none (a channel at 255 stays there brightened, one at 0 stays at 0);
\* adjust of no colour is no colour.
C15_AdjustInRange ==
    \A m \in Modes :
        /\ AdjustColor(Null, m) = Null
        /\ \A i \in 1..Len(components) :
              components[i].type = "factory" =>
                  LET c == components[i].color
                      out == AdjustColor(c, m)
                  IN  \A ch \in 1..3 :
                          /\ out[ch] \in 0..255
                          /\ m = "darken" => out[ch] <= c[ch]
                          /\ m = "lighten" => out[ch] >= c[ch]
                          /\ c[ch] = 0 => out[ch] = 0
                          /\ (m = "lighten" /\ c[ch] = 255) => out[ch] = 255

\* C15: a brightening gradientor emits a channel at 255 for one its source
\* emits below 255.
C15_Witness ==
    /\ lastOp = "connected"
    /\ \E i \in 1..Len(components) :
          /\ components[i].type = "gradientor"
          /\ components[i].mode = "lighten"
          /\ \E ch \in 1..3 :
                /\ Emitted(components[i].id, components[i].ports[2].id)[ch] = 255
                /\ SourceColor(components[i].id, components[i].ports[1].id)[ch] < 255


\* C16: each of a factory's four output ports carries the factory's colour,
\* whatever is linked to it and whatever else is on the grid.
C16_FactoryEmitsColor ==
    \A i \in 1..Len(components) :
        components[i].type = "factory" =>
            /\ Len(PortsWithRole(components[i], "output")) = 4
            /\ \A k \in 1..Len(components[i].ports) :
                  components[i].ports[k].role = "output" =>
                      Emitted(components[i].id, components[i].ports[k].id)
                          = components[i].color

\* C16: a factory one of whose outputs was just linked to another component.
C16_Witness ==
    /\ lastOp = "connected"
    /\ Len(components) = 2
    /\ \E i \in 1..Len(components) :
          /\ components[i].type = "factory"
          /\ connections[Len(connections)].from.componentId = components[i].id


\* C17: when computeColors used up its rounds with the last one still
\* changing something, it tells its caller so (by its return value or a
\* logged line), the map it computed being kept.
C17_NonConvergenceReported ==
    (guard = MaxRounds /\ changed) =>
        /\ reported # <<>>
        /\ portOutputs # <<>>


(***************************************************************************)
(* Properties of the handlers.                                             *)
(***************************************************************************)
\* C18: a click with no port selected selects the clicked port and leaves
\* the connections alone; a click with a port selected leaves none selected,
\* whatever comes of it.
C18_TwoStepSelection ==
    [][\A portRef \in PortRefs :
          HandlePortClick(portRef) =>
              IF selectedPort = NoRef
              THEN selectedPort' = portRef /\ connections' = connections
              ELSE selectedPort' = NoRef]_vars

\* C18: a second click on the component of the first cleared the selection,
\* links made before staying.
C18_Witness ==
    /\ lastOp = "sameComponent"
    /\ selectedPort = NoRef
    /\ connections # <<>>


\* The link a click on second would make, first being selected, is there
\* already, from the same port to the same port.
PairPresent(first, second) ==
    LET way == Orientation(RoleOf(first), RoleOf(second))
    IN  /\ way # "none"
        /\ \E k \in 1..Len(connections) :
              /\ connections[k].from = (IF way = "forward" THEN first ELSE second)
              /\ connections[k].to = (IF way = "forward" THEN second ELSE first)

\* C19: no two connections go from the same port to the same port, and a
\* click that would repeat a connection leaves the connections as they are,
\* also from an adder's or a gradientor's output.
C19_NoDuplicatePair ==
    [][/\ \A i, j \in 1..Len(connections') :
             (/\ connections'[i].from = connections'[j].from
              /\ connections'[i].to = connections'[j].to) => i = j
       /\ \A portRef \in PortRefs :
             (/\ selectedPort # NoRef
              /\ PairPresent(selectedPort, portRef)
              /\ HandlePortClick(portRef)) => connections' = connections]_vars

\* C19: the one connection goes from an adder's output to a gradientor's
\* input, and a click that could only repeat it was refused.
C19_Witness ==
    /\ lastOp = "canAccept"
    /\ Len(connections) = 1
    /\ IsFanOutPort(connections[1].from)
    /\ components[OwnerIndex(connections[1].from)].type = "adder"
    /\ components[OwnerIndex(connections[1].to)].type = "gradientor"


\* C20: deleteComponent with an id no component has leaves the components
\* (what storages hold included), the connections, the selection and the
\* port colours as they are.
C20_DeleteMissingNoOp ==
    [][\A id \in 1..idCounter :
          (/\ \A i \in 1..Len(components) : components[i].id # id
           /\ DeleteComponent(id))
              => UNCHANGED <<components, connections, selectedPort, portOutputs>>]_vars

\* C20: deleteComponent was called with an id no component has, on a grid
\* with a connection and a storage holding a colour.
C20_Witness ==
    /\ lastOp = "deleteMissing"
    /\ connections # <<>>
    /\ \E i \in 1..Len(components) :
          /\ components[i].type = "storage"
          /\ \E pid \in DOMAIN components[i].storageSlots :
                components[i].storageSlots[pid] # Null


(***************************************************************************)
(* Properties of the reset, the ports and the drag.                        *)
(***************************************************************************)
\* C21: after resetGrid, whatever the grid held, there are no components and
\* no connections, and the recompute it runs leaves no port colour.
C21_ResetEmpties ==
    lastOp \in {"resetGrid", "resetLinked"} =>
        /\ components = <<>>
        /\ connections = <<>>
        /\ portOutputs = <<>>

\* A grid with linked components was reset.
C21_Witness ==
    /\ lastOp = "resetLinked"
    /\ added = MaxAdds
    /\ components = <<>>
    /\ portOutputs = <<>>


\* The number of a component's ports of one role.
PortCount(component, role) ==
    Cardinality({k \in 1..Len(component.ports) : component.ports[k].role = role})

\* A component owns the ports of its kind, and no others.
ArityOfKind(component) ==
    LET n == [role \in {"input", "output", "flex"} |-> PortCount(component, role)]
    IN  /\ Len(component.ports) = n["input"] + n["output"] + n["flex"]
        /\ Cardinality({component.ports[k].id : k \in 1..Len(component.ports)})
              = Len(component.ports)
        /\ CASE component.type = "factory" ->
                    n["output"] = 4 /\ n["input"] = 0 /\ n["flex"] = 0
             [] component.type = "adder" ->
                    n["input"] = 2 /\ n["output"] = 1 /\ n["flex"] = 0
             [] component.type = "gradientor" ->
                    n["input"] = 1 /\ n["output"] = 1 /\ n["flex"] = 0
             [] component.type = "storage" ->
                    n["flex"] = 6 /\ n["input"] = 0 /\ n["output"] = 0
             [] OTHER -> FALSE

\* The ports on the grid, each with its owner and its role.
PortsOnGrid(comps) ==
    UNION {{[componentId |-> comps[i].id, portId |-> comps[i].ports[k].id,
             role |-> comps[i].ports[k].role] : k \in 1..Len(comps[i].ports)} :
              i \in 1..Len(comps)}

\* C22: every component owns exactly the ports of its kind (factory 4
\* outputs; adder 2 inputs and 1 output; gradientor 1 input and 1 output;
\* storage 6 flex), and no step changes the role or the owner of a port that
\* stays on the grid.
C22_PortsFixed ==
    /\ [](\A i \in 1..Len(components) : ArityOfKind(components[i]))
    /\ [][\A p \in PortsOnGrid(components) :
             (\E q \in PortsOnGrid(components') : q.portId = p.portId)
                 => p \in PortsOnGrid(components')]_vars

\* A factory feeds a storage: both kinds of component went through a link
\* and its recompute.
C22_Witness ==
    /\ lastOp = "connected"
    /\ \E i, j \in 1..Len(components) :
          /\ components[i].type = "factory"
          /\ components[j].type = "storage"
          /\ Len(components[i].ports) = 4
          /\ Len(components[j].ports) = 6
          /\ \E k \in 1..Len(connections) :
                /\ connections[k].from.componentId = components[i].id
                /\ connections[k].to.componentId = components[j].id


\* The colours the storages would hold after one more computeColors().
HeldAfterRecompute ==
    LET Held(r) == [i \in 1..Len(r.components) |-> r.components[i].storageSlots]
    IN  Held(ComputeColors(components, connections))

\* C23: every handler that changes the graph (add, delete, link, reset) runs
\* computeColors, so between the user's operations one more computeColors
\* would change no colour a storage holds.
C23_HeldUpToDate ==
    HeldAfterRecompute = [i \in 1..Len(components) |-> components[i].storageSlots]

\* A storage holds a colour it was fed by the link just made.
C23_Witness ==
    /\ lastOp = "connected"
    /\ \E i \in 1..Len(components) :
          /\ components[i].type = "storage"
          /\ \E pid \in DOMAIN components[i].storageSlots :
                /\ Fed(components[i].id, pid)
                /\ components[i].storageSlots[pid] # Null


(***************************************************************************)
(* Properties of the order of the two clicks.                              *)
(***************************************************************************)
\* Two flex ports of different storages, the first starting no connection
\* and the second ending none.
FlexAttempt(first, second) ==
    /\ RoleOf(first) = "flex"
    /\ RoleOf(second) = "flex"
    /\ first.componentId # second.componentId
    /\ LinksFrom(first) = {}
    /\ LinksTo(second) = {}

\* C24: a connect attempt between two flex ports of different storages that
\* passes the capacity gates adds the connection from the port clicked
\* first to the port clicked second.
C24_FlexFirstToSecond ==
    [][\A portRef \in PortRefs :
          (/\ selectedPort # NoRef
           /\ FlexAttempt(selectedPort, portRef)
           /\ HandlePortClick(portRef)) =>
              /\ Len(connections') = Len(connections) + 1
              /\ connections'[Len(connections')].from = selectedPort
              /\ connections'[Len(connections')].to = portRef]_vars

\* A connection between flex ports of two storages was just made.
C24_Witness ==
    /\ lastOp = "connected"
    /\ RoleOf(connections[Len(connections)].from) = "flex"
    /\ RoleOf(connections[Len(connections)].to) = "flex"
    /\ selectedPort = NoRef


\* C25: the end of a drag (connections re-rendered, computeColors run)
\* leaves the connections, the colour every port emits and the colour every
\* storage port holds as they were.
C25_DragKeepsColors ==
    [][DragEnd =>
        /\ connections' = connections
        /\ Len(components') = Len(components)
        /\ \A key \in PortKeys :
              ColorsEqual(GetOutput(portOutputs', key), GetOutput(portOutputs, key))
        /\ \A i \in 1..Len(components) :
              /\ components'[i].id = components[i].id
              /\ components[i].type = "storage" =>
                    \A pid \in DOMAIN components[i].storageSlots :
                        ColorsEqual(components'[i].storageSlots[pid],
                                    components[i].storageSlots[pid])]_vars

\* A component was dragged on a grid where a storage holds a colour it is
\* fed through a connection.
C25_Witness ==
    /\ lastOp = "dragEnd"
    /\ connections # <<>>
    /\ \E i \in 1..Len(components) :
          /\ components[i].type = "storage"
          /\ \E pid \in DOMAIN components[i].storageSlots :
                /\ components[i].storageSlots[pid] # Null
                /\ Emitted(components[i].id, pid) # Null


(***************************************************************************)
(* Properties of the mix.                                                  *)
(***************************************************************************)
\* The component that feeds a port (the port is fed).
Feeder(cid, pid) ==
    components[OwnerIndex(connections[InboundIndex(connections, cid, pid)].from)]

\* An adder whose first input is fed by a factory of colour a and whose
\* second input by a factory of colour b.
MixedFrom(component, a, b) ==
    LET ins == PortsWithRole(component, "input")
    IN  /\ component.type = "adder"
        /\ \A k \in 1..2 : Fed(component.id, ins[k].id)
        /\ Feeder(component.id, ins[1].id).type = "factory"
        /\ Feeder(component.id, ins[2].id).type = "factory"
        /\ Feeder(component.id, ins[1].id).color = a
        /\ Feeder(component.id, ins[2].id).color = b

\* What an adder emits on its output.
MixedOutput(component) ==
    Emitted(component.id, PortsWithRole(component, "output")[1].id)

\* C26: red mixed with blue has red and blue both above green (purple); red
\* mixed with yellow has red above 200, green above 50 and blue below 100
\* (orange); yellow mixed with blue has green above 100 and above both other
\* channels (green).
C26_PrimaryPairs ==
    \A i \in 1..Len(components) :
        LET m == MixedOutput(components[i])
        IN  /\ MixedFrom(components[i], <<255, 0, 0>>, <<0, 0, 255>>) =>
                  m # Null /\ m[1] > m[2] /\ m[3] > m[2]
            /\ MixedFrom(components[i], <<255, 0, 0>>, <<255, 255, 0>>) =>
                  m # Null /\ m[1] > 200 /\ m[2] > 50 /\ m[3] < 100
            /\ MixedFrom(components[i], <<255, 255, 0>>, <<0, 0, 255>>) =>
                  m # Null /\ m[2] > 100 /\ m[2] > m[1] /\ m[2] > m[3]

\* An adder emits the mix of yellow and blue.
C26_Witness ==
    \E i \in 1..Len(components) :
        /\ MixedFrom(components[i], <<255, 255, 0>>, <<0, 0, 255>>)
        /\ MixedOutput(components[i]) = <<127, 191, 127>>


\* Two colours no more than tolerance apart on any channel.
ColorsMatch(a, b, tolerance) ==
    /\ a # Null
    /\ b # Null
    /\ \A ch \in 1..3 : a[ch] - b[ch] <= tolerance /\ b[ch] - a[ch] <= tolerance

\* C27: a colour mixed with itself gives that colour, to within 50 on every
\* channel.
C27_SelfMixKeepsColor ==
    \A i \in 1..Len(components) : \A c \in MixPalette :
        MixedFrom(components[i], c, c) => ColorsMatch(MixedOutput(components[i]), c, 50)


(***************************************************************************)
(* Properties of the mix-and-feed page.                                    *)
(***************************************************************************)
\* C28: after every operation the Mix button is enabled exactly when both
\* slots hold a colour and the Feed button exactly when there is a result;
\* mixFactoryColors changes nothing unless both slots are filled, feedCrab
\* nothing unless there is a result.
C28_ButtonsFollowState ==
    /\ [](/\ ~mixBtnDisabled <=>
                (gameState.slot1Color # Null /\ gameState.slot2Color # Null)
          /\ ~feedBtnDisabled <=> (gameState.resultColor # Null))
    /\ [][/\ (/\ (gameState.slot1Color = Null \/ gameState.slot2Color = Null)
              /\ MixFactoryColors)
                 => UNCHANGED crabVars
          /\ (gameState.resultColor = Null /\ FeedCrab) => UNCHANGED crabVars]_vars

\* Both slots were filled and mixed: both buttons are enabled.
C28_Witness ==
    /\ lastOp = "mixed"
    /\ ~mixBtnDisabled
    /\ ~feedBtnDisabled
    /\ gameState.resultColor = <<159, 63, 159>>


\* The mixes of the colours of a set.
Mixes(colors) == {MixColors(a, b) : a, b \in colors}

\* The colours a palette can hold after so many factories were placed.
RECURSIVE PaletteAfter(_)
PaletteAfter(n) ==
    IF n = 0 THEN ClickedFactories
    ELSE PaletteAfter(n - 1) \cup Mixes(PaletteAfter(n - 1))

\* The colours that can be fed to the crab.
FedColors == Mixes(PaletteAfter(MaxPlaced))

\* C29: feedCrab with a result clears the result at once and leaves the
\* crab's colour; the crab's colour changes only when a 600 ms timeout
\* fires, to the colour that feed captured; and a colour that was fed
\* eventually is the crab's colour.
C29_CrabTakesFedColor ==
    /\ [][(gameState.resultColor # Null /\ FeedCrab) =>
             /\ gameState'.resultColor = Null
             /\ gameState'.crabColor = gameState.crabColor
             /\ feedTimers' = Append(feedTimers, gameState.resultColor)]_vars
    /\ [][gameState'.crabColor # gameState.crabColor =>
             /\ feedTimers # <<>>
             /\ gameState'.crabColor = Head(feedTimers)
             /\ feedTimers' = Tail(feedTimers)]_vars
    /\ \A c \in FedColors :
          (\E k \in 1..Len(feedTimers) : feedTimers[k] = c)
              ~> (gameState.crabColor = c)

\* The crab took the colour of a feed while a second feed waits.
C29_Witness ==
    /\ lastOp = "feedTimeout"
    /\ gameState.crabColor = <<159, 63, 159>>
    /\ Len(feedTimers) = 1
    /\ feedTimers[1] # gameState.crabColor


\* What clicking first and then second leads to in this state: the link
\* handlePortClick adds, or NoLink when it only clears the selection.
Attempt(first, second) ==
    LET resolved == ResolveConnection(components, connections, first, second)
    IN  IF first.componentId = second.componentId THEN NoLink
        ELSE IF ~resolved.ok THEN NoLink
        ELSE IF ConnectionExists(connections, resolved.from, resolved.to) THEN NoLink
        ELSE resolved

\* C30: for two ports that are not both flex, the order of the two clicks
\* does not matter: what the second click does after (a, b) is what it
\* would do after (b, a), nothing or the same connection.
C30_OrderIndependent ==
    [][\A portRef \in PortRefs :
          (/\ selectedPort # NoRef
           /\ ~(RoleOf(selectedPort) = "flex" /\ RoleOf(portRef) = "flex")
           /\ HandlePortClick(portRef)) =>
              LET swapped == Attempt(portRef, selectedPort)
              IN  IF swapped.ok
                  THEN /\ Len(connections') = Len(connections) + 1
                       /\ connections'[Len(connections')].from = swapped.from
                       /\ connections'[Len(connections')].to = swapped.to
                  ELSE connections' = connections]_vars

\* An input was clicked first, then the flex port that now feeds it.
C30_Witness ==
    /\ lastOp = "connected"
    /\ RoleOf(connections[Len(connections)].from) = "flex"
    /\ RoleOf(connections[Len(connections)].to) = "input"
    /\ Len(connections) = 1
    /\ selectedPort = NoRef
    /\ added = MaxAdds


(***************************************************************************)
(* Properties of the rounds of one computeColors.                          *)
(***************************************************************************)
\* The steps that run computeColors.
Recomputed(op) ==
    op \in {"add", "connected", "deleted", "deletedLinked", "resetGrid",
            "resetLinked", "dragEnd"}

\* The slots of a storage as createComponent makes them.
EmptySlots(component) ==
    IF component.type = "storage"
    THEN [pid \in DOMAIN component.storageSlots |-> Null]
    ELSE component.storageSlots

\* The components a step's computeColors started from: those it left, each
\* storage with the slots it had before the step.
BeforeRecompute ==
    [j \in 1..Len(components') |->
        LET i == ComponentIndex(components, components'[j].id)
        IN  [components'[j] EXCEPT
                !.storageSlots = IF i = 0 THEN EmptySlots(components'[j])
                                 ELSE components[i].storageSlots]]

\* The rounds of a step's computeColors.
RoundsOfStep == RoundMaps(BeforeRecompute, connections', <<>>, TRUE, 0)

\* No colour of one map is changed or gone in the next.
ColorsKept(maps) ==
    \A r \in 1..(Len(maps) - 1) :
        \A e \in 1..Len(maps[r]) :
            maps[r][e].color # Null =>
                ColorsEqual(GetOutput(maps[r + 1], maps[r][e].key), maps[r][e].color)

\* C31: within one computeColors, a port whose entry of the map holds a
\* colour after a round holds that colour after every later round; the last
\* round's map is the one computeColors leaves.
C31_RoundsOnlyAdd ==
    [][Recomputed(lastOp') =>
          First(RoundsOfStep, LAMBDA maps :
              /\ ColorsKept(maps)
              /\ Len(maps) = guard'
              /\ guard' > 0 => maps[guard'] = portOutputs')]_vars

\* A computeColors took three rounds or more and left a colour on a storage
\* port.
C31_Witness ==
    /\ Recomputed(lastOp)
    /\ guard >= 3
    /\ \E i \in 1..Len(components) :
          /\ components[i].type = "storage"
          /\ \E pid \in DOMAIN components[i].storageSlots :
                Emitted(components[i].id, pid) # Null


(***************************************************************************)
(* Properties of loops.                                                    *)
(***************************************************************************)
\* The ports a port passes its colour to: the ports its connections end on
\* and, for an input of an adder or a gradientor, the component's outputs.
PortSuccessors(key) ==
    {PortKey(connections[k].to) :
        k \in {k \in 1..Len(connections) : PortKey(connections[k].from) = key}}
    \cup UNION {{<<components[i].id, components[i].ports[o].id>> :
                    o \in {o \in 1..Len(components[i].ports) :
                              /\ components[i].type \in {"adder", "gradientor"}
                              /\ components[i].ports[o].role = "output"
                              /\ \E p \in 1..Len(components[i].ports) :
                                    /\ components[i].ports[p].role = "input"
                                    /\ key = <<components[i].id,
                                               components[i].ports[p].id>>}} :
                   i \in 1..Len(components)}

RECURSIVE PortsReached(_, _)
PortsReached(keys, n) ==
    IF n = 0 THEN keys
    ELSE PortsReached(keys \cup UNION {PortSuccessors(key) : key \in keys}, n - 1)

\* A port that lies on a directed cycle.
OnCycle(key) == key \in PortsReached(PortSuccessors(key), Cardinality(PortKeys))

\* C32: after computeColors, every port on a directed cycle through adder,
\* gradientor or storage ports emits nothing, whatever the storages held
\* before.
C32_CyclesEmitNothing ==
    \A key \in PortKeys : OnCycle(key) => GetOutput(portOutputs, key) = Null

\* A factory feeds an adder whose output comes back to its other input, and
\* the factory emits its colour.
C32_Witness ==
    /\ lastOp = "connected"
    /\ \E i, j \in 1..Len(components) :
          /\ components[i].type = "adder"
          /\ components[j].type = "factory"
          /\ \A p \in 1..Len(components[i].ports) :
                OnCycle(<<components[i].id, components[i].ports[p].id>>)
                \/ \E k \in 1..Len(connections) :
                      /\ connections[k].to =
                            Ref(components[i].id, components[i].ports[p].id)
                      /\ connections[k].from.componentId = components[j].id
                      /\ GetOutput(portOutputs, PortKey(connections[k].from)) # Null
          /\ \E p \in 1..Len(components[i].ports) :
                ~OnCycle(<<components[i].id, components[i].ports[p].id>>)


(***************************************************************************)
(* Properties of what the storages hold and emit.                          *)
(***************************************************************************)
\* The colours a storage port may hold when a computeColors starts.
HeldBefore == {Null, <<0, 0, 255>>, <<255, 0, 0>>}

\* The components, every storage port holding held.
WithHeld(held) ==
    [i \in 1..Len(components) |->
        IF components[i].type = "storage"
        THEN [components[i] EXCEPT
                 !.storageSlots = [pid \in DOMAIN components[i].storageSlots |-> held]]
        ELSE components[i]]

\* The colours a port-output map gives the ports of the grid.
ColorsOf(map) == [key \in PortKeys |-> GetOutput(map, key)]

\* C33: the port-output map computeColors leaves depends on the components
\* and the connections only: started on the same grid with other colours
\* held by the storages, it leaves every port the colour it has now.
C33_MapIgnoresHeld ==
    \A held \in HeldBefore :
        ColorsOf(ComputeColors(WithHeld(held), connections).map) = ColorsOf(portOutputs)

\* One storage port emits a colour and another emits nothing, so every colour
\* tried as held differs from what some storage port ends up holding.
C33_Witness ==
    /\ lastOp = "connected"
    /\ \E i \in 1..Len(components) :
          /\ components[i].type = "storage"
          /\ \E pid \in DOMAIN components[i].storageSlots :
                Emitted(components[i].id, pid) # Null
          /\ \E pid \in DOMAIN components[i].storageSlots :
                Emitted(components[i].id, pid) = Null

\* C34: a flex port of a storage emits a colour only when a connection ends
\* on that very port and its source emits a colour; a port of a storage with
\* no connection into it emits nothing, whatever the other ports receive.
C34_FlexEmitsOwnInbound ==
    \A i \in 1..Len(components) :
        components[i].type = "storage" =>
            \A pid \in DOMAIN components[i].storageSlots :
                Emitted(components[i].id, pid) # Null =>
                    /\ Fed(components[i].id, pid)
                    /\ SourceColor(components[i].id, pid) # Null

\* A storage receives a colour on one flex port while another of its flex
\* ports has no connection into it.
C34_Witness ==
    /\ lastOp = "connected"
    /\ \E i \in 1..Len(components) :
          /\ components[i].type = "storage"
          /\ \E pid, other \in DOMAIN components[i].storageSlots :
                /\ pid # other
                /\ Fed(components[i].id, pid)
                /\ Emitted(components[i].id, pid) # Null
                /\ ~Fed(components[i].id, other)
                /\ Emitted(components[i].id, other) = Null


(***************************************************************************)
(* Properties of the pending selection and of the identifiers.             *)
(***************************************************************************)
\* C35: a pending selection names a port of a component on the grid, after
\* any port clicks, deleteComponent and resetGrid.
C35_SelectionOnGrid ==
    selectedPort # NoRef => PortKey(selectedPort) \in PortKeys


\* The ids of the components, of their ports and of the connections, one
\* entry per object (an id is its prefix and the number nextId returned; the
\* number alone tells two ids apart when it differs).
RECURSIVE IdsOf(_, _)
IdsOf(comps, conns) ==
    IF comps # <<>>
    THEN <<comps[1].id>> \o [k \in 1..Len(comps[1].ports) |-> comps[1].ports[k].id]
             \o IdsOf(Tail(comps), conns)
    ELSE [i \in 1..Len(conns) |-> conns[i].id]

Distinct(ids) == \A i, j \in 1..Len(ids) : ids[i] = ids[j] => i = j

Range(ids) == {ids[i] : i \in 1..Len(ids)}

\* C36: the objects on the grid have distinct ids, none above the counter;
\* the counter never goes down; and an id that appears in a step is above
\* the counter the step started with, so above every id handed out before
\* it, whether its object was deleted or the grid reset since.
C36_IdsNeverReused ==
    [][First(<<IdsOf(components, connections), IdsOf(components', connections')>>,
             LAMBDA ids :
                 /\ Distinct(ids[1])
                 /\ \A id \in Range(ids[1]) : id <= idCounter
                 /\ idCounter' >= idCounter
                 /\ Distinct(ids[2])
                 /\ \A id \in Range(ids[2]) \ Range(ids[1]) :
                       id > idCounter /\ id <= idCounter')]_vars

\* A component was added after every component created before it had been
\* removed (deleted, or the grid reset).
C36_Witness ==
    /\ lastOp = "add"
    /\ Len(components) = 1
    /\ components[1].id > 2
    /\ idCounter = components[1].id + Len(components[1].ports)

(***************************************************************************)
(* Properties of mixColors seen through the adder.                         *)
(***************************************************************************)
\* C37: an adder whose first input carries a and whose second carries b
\* emits mixColors(b, a), the mix with the two colours exchanged, for all
\* colours a and b of the palette.
C37_MixCommutes ==
    \A i \in 1..Len(components) :
        \A a, b \in MixPalette :
            MixedFrom(components[i], a, b) =>
                MixedOutput(components[i]) = MixColors(b, a)

\* An adder emits the mix of blue on its first input and red on its second.
C37_Witness ==
    \E i \in 1..Len(components) :
        /\ MixedFrom(components[i], <<0, 0, 255>>, <<255, 0, 0>>)
        /\ MixedOutput(components[i]) = <<159, 63, 159>>


(***************************************************************************)
(* Properties of the slots of the mix-and-feed page.                       *)
(***************************************************************************)
\* C38: on the mix-and-feed page a result is present only with both slots
\* filled, slot 2 is filled only with slot 1 filled, and a factory clicked
\* with both slots filled leaves its colour in slot 1, slot 2 empty and no
\* result.
C38_SlotsFillInOrder ==
    /\ [](/\ gameState.resultColor # Null =>
                (gameState.slot1Color # Null /\ gameState.slot2Color # Null)
          /\ gameState.slot2Color # Null => gameState.slot1Color # Null)
    /\ [][\A color \in gameState.discoveredColors :
             (/\ gameState.slot1Color # Null
              /\ gameState.slot2Color # Null
              /\ HandleFactoryClick(color))
                 => /\ gameState'.slot1Color = color
                    /\ gameState'.slot2Color = Null
                    /\ gameState'.resultColor = Null]_vars

\* Blue and red fill the slots and their mix is the result, so that the next
\* factory clicked finds both slots filled.
C38_Witness ==
    /\ lastOp = "mixed"
    /\ gameState.slot1Color = <<0, 0, 255>>
    /\ gameState.slot2Color = <<255, 0, 0>>
    /\ gameState.resultColor = <<159, 63, 159>>
    /\ feedTimers # <<>>

====
